---- MODULE Spec2Model ----
(***************************************************************************)
(* A model of aws-multi-log-inspector.                                     *)
(*                                                                         *)
(*   Spec       Inspector.Search: the worker pool over the group channel,  *)
(*              the closing goroutine and the collecting select loop, and  *)
(*              main's extraction from the records returned.               *)
(*   SpecPager  CloudWatchClient.SearchGroup: the pagination loop over     *)
(*              FilterLogEvents, of a client that runs out of responses    *)
(*              and of one that repeats them.                              *)
(*   SpecExtract      util.ExtractFirstValue: the loop over the events,    *)
(*              with json.Unmarshal, jmespath.Search and json.Marshal.     *)
(*   SpecPlaceholder  util.ReplacePlaceholder.                             *)
(*   SpecFilter  util.BuildNextFilter.                                     *)
(*   SpecWindow  cmd.ResolveTimeWindow, with time.Parse of RFC 3339 texts. *)
(*   SpecLive   Inspector.Search with worker goroutines that are not       *)
(*              starved.                                                   *)
(*   SpecFair   Inspector.Search with no goroutine starved and a fair      *)
(*              select in the collecting loop.                             *)
(*   SpecMain   main: the checks of the options, the window and the        *)
(*              client, the first search, the extraction, the next filter  *)
(*              and the second search.                                     *)
(*                                                                         *)
(* A time.Time of the command line is the day and the second of the day.   *)
(* Go strings that are compared with < are sequences of byte values, so    *)
(* that the order is Go's bytewise order; opaque strings (continuation     *)
(* tokens, error texts) are TLA+ strings.  A *string is <<>> for nil and   *)
(* <<s>> for a pointer to s.  Instants are integers: nanoseconds for the   *)
(* time.Time fields of the Inspector, milliseconds for event timestamps.   *)
(* The texts of package util (messages, expressions, values) are sequences *)
(* of byte values, ASCII throughout.                                       *)
(***************************************************************************)
EXTENDS Integers, Sequences, FiniteSets, Bags, TLC

\* ------------------------------------------------------------------ bounds

\* The longest group list an Inspector is constructed with.
MaxSources == 2

\* The largest --concurrency value tried (the other one is 0).
MaxConcurrency == 2

\* The number of scripted FilterLogEvents responses of the paging backend.
MaxPages == 3

\* The largest number of FilterLogEvents calls of one SearchGroup call that
\* is followed.
MaxCalls == 6

\* ------------------------------------------------------------ Go strings

RECURSIVE StrLess(_, _)
\* Go's a < b on strings: bytewise lexicographic order.
StrLess(a, b) ==
    IF b = <<>> THEN FALSE
    ELSE IF a = <<>> THEN TRUE
    ELSE IF Head(a) # Head(b) THEN Head(a) < Head(b)
    ELSE StrLess(Tail(a), Tail(b))

\* aws.ToString: the pointed-to string, "" for nil.
AwsToString(p) == IF p = <<>> THEN "" ELSE p[1]

\* ------------------------------------------------------------ the records

\* model.LogRecord
LogRecord(ts, group, stream, message) ==
    [Timestamp |-> ts, LogGroup |-> group, LogStream |-> stream, Message |-> message]

\* A mutant of RecordLess: the comparison of the first version of Search,
\* which ordered by timestamp alone.
RecordLessTimestampOnly(a, b) == a.Timestamp < b.Timestamp

\* The less function Search gives to sort.Slice.
RecordLess(a, b) ==
    IF a.Timestamp = b.Timestamp
    THEN IF a.LogGroup = b.LogGroup
         THEN IF a.LogStream = b.LogStream
              THEN StrLess(a.Message, b.Message)
              ELSE StrLess(a.LogStream, b.LogStream)
         ELSE StrLess(a.LogGroup, b.LogGroup)
    ELSE a.Timestamp < b.Timestamp

RECURSIVE InsertRecord(_, _)
\* r put into the sorted sequence s, after every element that is not greater.
InsertRecord(r, s) ==
    IF s = <<>> THEN <<r>>
    ELSE IF RecordLess(r, Head(s)) THEN <<r>> \o s
    ELSE <<Head(s)>> \o InsertRecord(r, Tail(s))

\* A mutant of SortRecords: the records are returned as they were collected.
SortRecordsSkipped(s) == s

RECURSIVE SortRecords(_)
\* sort.Slice(allRecords, less): the records rearranged into the order of less.
\* The sorted tail is bound to t, so that it is computed once.
SortRecords(s) ==
    IF s = <<>> THEN <<>>
    ELSE CHOOSE out \in {InsertRecord(Head(s), t) : t \in {SortRecords(Tail(s))}} : TRUE

\* time.Time.UnixMilli of an instant given in nanoseconds (rounds down).
UnixMilli(t) == t \div 1000000

\* ------------------------------------------------------- the search inputs

\* The i-th configured log group: "/g2", "/g1", "/g4", "/g3", ... (the list
\* order is not the order of the names).
GroupName(i) == <<47, 103, 48 + (IF i % 2 = 1 THEN i + 1 ELSE i - 1)>>

\* The group lists an Inspector is constructed with, the empty one included.
GroupLists == {[i \in 1..n |-> GroupName(i)] : n \in 0..MaxSources}

\* The filter patterns given to Search: "" and "x".
Filters == {<<>>, <<120>>}

\* The search windows, <<startTime, endTime>> in nanoseconds: one of whole
\* milliseconds, and one whose ends are not whole milliseconds.
Windows == {<<500000000, 2000000000>>, <<1999999, 7000001>>}

\* The values of --concurrency: the default that main raises to 1, and the
\* largest.
Concurrencies == {0, MaxConcurrency}

\* The nil error. An error is the tuple of its text and what it is about.
NoErr == <<>>

\* The error a retriever fails with for a group (mockRetriever.errFor).
BackendError(group) == <<"boom", group>>

\* What one group's retriever returns, as events <<timestamp ms, stream,
\* message>>: nothing, or events that are out of order, with equal
\* timestamps in two streams, with messages that differ in one stream at one
\* timestamp, and with one event twice.
EventBatches ==
    { <<>>,
      << <<2000, <<98>>, <<97>>>>, <<1000, <<98>>, <<98>>>>, <<1000, <<97>>, <<122>>>>,
         <<1000, <<98>>, <<97>>>>, <<1000, <<98>>, <<98>>>> >> }

\* The records SearchGroup makes of a group's events.
ToRecords(group, events) ==
    [i \in 1..Len(events) |-> LogRecord(events[i][1], group, events[i][2], events[i][3])]

\* One event with a message that no event of EventBatches has.
OwnBatch == << <<1000, <<97>>, <<99>>>> >>

\* The outcomes of SearchGroup for one group: records and a nil error, or no
\* records and an error (mockRetriever.results and mockRetriever.errFor).
\* The first configured group may also return OwnBatch, so that the messages
\* of two groups can differ.
Outcomes(group) ==
    {[records |-> ToRecords(group, b), err |-> NoErr] : b \in EventBatches}
    \cup {[records |-> <<>>, err |-> BackendError(group)]}
    \cup (IF group = GroupName(1)
          THEN {[records |-> ToRecords(group, OwnBatch), err |-> NoErr]}
          ELSE {})

\* ------------------------------------------------------------- the state

VARIABLES
    groups,         \* Inspector.groups
    startTime,      \* Inspector.startTime
    endTime,        \* Inspector.endTime
    backend,        \* Inspector.client: group -> what SearchGroup returns for it
    concurrency,    \* the --concurrency option main read
    workers,        \* the worker count main gave to SetWorkers
    filterPattern,  \* the argument of Search
    pc,             \* the caller: "new", "configured", "collect", "returned"
    groupChan,      \* the groups buffered in groupChan (closed once filled)
    wpc,            \* each worker goroutine: "recv", "got", "calling", "done"
    wgroup,         \* the group each worker holds, <<>> between two iterations
    resultChan,     \* the batches buffered in resultChan
    errorChan,      \* the errors buffered in errorChan
    resultClosed,   \* close(resultChan) has run
    errorClosed,    \* close(errorChan) has run
    closer,         \* the closing goroutine: "none", "wait", "closeErr", "done"
    allRecords,     \* the collector's allRecords
    result,         \* the records Search returned
    err,            \* the error Search returned
    calls,          \* the SearchGroup calls made so far (mockRetriever.calls)
    errSeen,        \* some SearchGroup call has returned an error
    errWritten,     \* the sends to errorChan so far: the group and its error
    resWritten      \* the sends to resultChan so far: the group

inspectorVars == <<groups, startTime, endTime, backend>>
searchVars == <<concurrency, workers, filterPattern, pc, groupChan, wpc, wgroup,
                resultChan, errorChan, resultClosed, errorClosed, closer,
                allRecords, result, err, calls, errSeen, errWritten,
                resWritten>>

VARIABLES
    pgGroup,        \* SearchGroup's group argument
    pgFilter,       \* SearchGroup's filterPattern argument
    pgStartMs,      \* SearchGroup's startMs argument
    pgEndMs,        \* SearchGroup's endMs argument
    pgScript,       \* mockLogsAPI.responses: what FilterLogEvents returns, call by call
    pgPeriod,       \* 0 for mockLogsAPI; p for a LogsAPI that repeats p responses
    pgInputs,       \* mockLogsAPI.inputs: the input of every call made
    pgNext,         \* SearchGroup's next: the token the coming call carries
    pgRecords,      \* SearchGroup's records
    pgPc,           \* SearchGroup: "off", "loop", "returned"
    pgResult,       \* the records SearchGroup returned
    pgErr           \* the error SearchGroup returned

pagerVars == <<pgGroup, pgFilter, pgStartMs, pgEndMs, pgScript, pgPeriod, pgInputs, pgNext,
               pgRecords, pgPc, pgResult, pgErr>>

\* An ExtractFirstValue call: its arguments, the position of the range loop,
\* the jmespath.Search calls made so far and what it returned.
VARIABLES
    exEvents,       \* the Message pointers of the events, in order
    exJmes,         \* the JMESPath expression
    exIdx,          \* the index of the event the loop is at
    exTrace,        \* one entry per jmespath.Search call
    exPc,           \* "off", "loop" or "returned"
    exValue,        \* the returned string
    exFound,        \* the returned bool
    exErr           \* the returned error

extractVars == <<exEvents, exJmes, exIdx, exTrace, exPc, exValue, exFound, exErr>>

\* A ReplacePlaceholder call: its arguments and what it returned.
VARIABLES
    rpExpr,
    rpName,
    rpValue,
    rpPc,           \* "off", "called" or "returned"
    rpResult

placeholderVars == <<rpExpr, rpName, rpValue, rpPc, rpResult>>

\* A BuildNextFilter call: its arguments, the input and the outcome of its
\* jmespath.Search call, and what it returned.
VARIABLES
    bfJmes,
    bfExtracted,
    bfInput,
    bfOut,
    bfPc,           \* "off", "called" or "returned"
    bfResult,
    bfErr

filterVars == <<bfJmes, bfExtracted, bfInput, bfOut, bfPc, bfResult, bfErr>>

\* A ResolveTimeWindow call: its arguments and what it returned.
VARIABLES
    twStartStr,
    twEndStr,
    twNow,
    twPc,           \* "off", "called" or "returned"
    twResult

windowVars == <<twStartStr, twEndStr, twNow, twPc, twResult>>

\* A run of main: the options, the inspector's arguments, the searches it
\* has called and what they returned, the value it extracted and how the
\* run ended.
VARIABLES
    mnOpts,         \* FilterPattern, Extract, NextFilter, Concurrency,
                    \* StartRFC3339 and EndRFC3339
    mnEnv,          \* os.Args[1:], time.Now() and whether the client can be made
    mnGroups,       \* groups
    mnWindow,       \* the resolved start and end, <<>> before they are resolved
    mnPc,           \* "off", "start", "first", "second" or "exited"
    mnSearches,     \* the Search calls made: the inspector's arguments and the filter
    mnReturns,      \* what the Search calls returned
    mnExtracted,    \* what ExtractFirstValue returned, <<>> before it is called
    mnExit          \* the exit code, -1 while main runs

mainVars == <<mnOpts, mnEnv, mnGroups, mnWindow, mnPc, mnSearches, mnReturns,
              mnExtracted, mnExit>>

\* The variables of the command-line layer.
cmdVars == <<windowVars, mainVars>>

\* The variables of the parts of the program modelled after package util's
\* extraction and substitution.
restVars == <<filterVars, cmdVars>>

utilVars == <<extractVars, placeholderVars, restVars>>

vars == <<inspectorVars, searchVars, pagerVars, utilVars>>

\* ------------------------------------------------------- Inspector.Search

ErrNoGroups == <<"no log groups configured">>
ErrEmptyFilter == <<"empty filter pattern">>

\* main: the worker count made of --concurrency and the number of groups.
ClampWorkers(c, n) ==
    LET w == IF c <= 0 THEN 1 ELSE c
    IN  IF w > n THEN n ELSE w

\* const numWorkers = 4: the number of worker goroutines Search starts,
\* whatever count SetWorkers was given.
NumWorkers == 4

\* The Inspector before any search: no goroutine, no channel.
SearchIdle ==
    /\ concurrency = 0
    /\ workers = 0
    /\ filterPattern = <<>>
    /\ groupChan = <<>>
    /\ wpc = <<>>
    /\ wgroup = <<>>
    /\ resultChan = <<>>
    /\ errorChan = <<>>
    /\ resultClosed = FALSE
    /\ errorClosed = FALSE
    /\ closer = "none"
    /\ allRecords = <<>>
    /\ result = <<>>
    /\ err = NoErr
    /\ calls = <<>>
    /\ errSeen = FALSE
    /\ errWritten = <<>>
    /\ resWritten = <<>>

\* No ExtractFirstValue call is under way.
ExtractOff ==
    /\ exEvents = <<>>
    /\ exJmes = <<>>
    /\ exIdx = 0
    /\ exTrace = <<>>
    /\ exPc = "off"
    /\ exValue = <<>>
    /\ exFound = FALSE
    /\ exErr = <<>>

\* No ResolveTimeWindow call is under way.
WindowOff ==
    /\ twStartStr = <<>>
    /\ twEndStr = <<>>
    /\ twNow = <<>>
    /\ twPc = "off"
    /\ twResult = <<>>

\* main is not running.
MainOff ==
    /\ mnOpts = <<>>
    /\ mnEnv = <<>>
    /\ mnGroups = <<>>
    /\ mnWindow = <<>>
    /\ mnPc = "off"
    /\ mnSearches = <<>>
    /\ mnReturns = <<>>
    /\ mnExtracted = <<>>
    /\ mnExit = -1

\* The command-line layer is at rest.
CmdOff == WindowOff /\ MainOff

\* No BuildNextFilter call is under way.
BuildOff ==
    /\ bfJmes = <<>>
    /\ bfExtracted = <<>>
    /\ bfInput = <<>>
    /\ bfOut = <<>>
    /\ bfPc = "off"
    /\ bfResult = <<>>
    /\ bfErr = <<>>

\* Neither BuildNextFilter nor the command-line layer is under way.
FilterOff == BuildOff /\ CmdOff

\* No ReplacePlaceholder call is under way.
PlaceholderOff ==
    /\ rpExpr = <<>>
    /\ rpName = <<>>
    /\ rpValue = <<>>
    /\ rpPc = "off"
    /\ rpResult = <<>>

\* No SearchGroup call of the paging model is under way.
PagerOff ==
    /\ pgGroup = <<>>
    /\ pgFilter = <<>>
    /\ pgStartMs = 0
    /\ pgEndMs = 0
    /\ pgScript = <<>>
    /\ pgPeriod = 0
    /\ pgInputs = <<>>
    /\ pgNext = <<>>
    /\ pgRecords = <<>>
    /\ pgPc = "off"
    /\ pgResult = <<>>
    /\ pgErr = NoErr

\* inspector.New(client, groups, startTime, endTime)
Init ==
    /\ groups \in GroupLists
    /\ \E w \in Windows : startTime = w[1] /\ endTime = w[2]
    /\ backend \in [{groups[i] : i \in 1..Len(groups)} -> UNION {Outcomes(GroupName(i)) : i \in 1..MaxSources}]
    /\ \A g \in DOMAIN backend : backend[g] \in Outcomes(g)
    /\ pc = "new"
    /\ SearchIdle
    /\ FilterOff
    /\ PagerOff
    /\ ExtractOff
    /\ PlaceholderOff

\* main: insp.SetWorkers(workers), with workers made of opts.Concurrency.
SetWorkers ==
    /\ pc = "new"
    /\ \E c \in Concurrencies :
          /\ concurrency' = c
          /\ workers' = ClampWorkers(c, Len(groups))
    /\ pc' = "configured"
    /\ UNCHANGED <<inspectorVars, filterPattern, groupChan, wpc, wgroup, resultChan,
                   errorChan, resultClosed, errorClosed, closer, allRecords, result,
                   err, calls, errSeen, errWritten, resWritten,
                   pagerVars, utilVars>>

\* A mutant of Validate: the empty filter pattern is let through.
ValidateGroupsOnly(gs, fp) == IF Len(gs) = 0 THEN ErrNoGroups ELSE NoErr

\* Search's checks of its inputs: the error it returns at once, or nil.
Validate(gs, fp) ==
    IF Len(gs) = 0 THEN ErrNoGroups
    ELSE IF fp = <<>> THEN ErrEmptyFilter
    ELSE NoErr

\* Search, from its entry to the start of the collecting loop: the checks,
\* the filled and closed groupChan, the workers and the closing goroutine.
Search ==
    /\ pc = "configured"
    /\ \E fp \in Filters :
          /\ filterPattern' = fp
          /\ IF Validate(groups, fp) # NoErr
             THEN /\ err' = Validate(groups, fp)
                  /\ pc' = "returned"
                  /\ UNCHANGED <<groupChan, wpc, wgroup, closer>>
             ELSE /\ groupChan' = groups
                  /\ wpc' = [w \in 1..NumWorkers |-> "recv"]
                  /\ wgroup' = [w \in 1..NumWorkers |-> <<>>]
                  /\ closer' = "wait"
                  /\ pc' = "collect"
                  /\ err' = err
    /\ UNCHANGED <<inspectorVars, concurrency, workers, resultChan, errorChan,
                   resultClosed, errorClosed, allRecords, result, calls, errSeen,
                   errWritten, resWritten, pagerVars, utilVars>>

\* The call a worker makes for a group: the arguments of SearchGroup.
SearchCall(group) ==
    [group |-> group, filter |-> filterPattern,
     startMs |-> UnixMilli(startTime), endMs |-> UnixMilli(endTime)]

\* A mutant of Received: the receive leaves the group in the channel.
ReceivedKept(ch) == ch

\* A channel's buffer after a receive took its first value.
Received(ch) == Tail(ch)

\* A worker at "for group := range groupChan": it takes the next group, or
\* leaves the loop when the channel is drained.
WorkerTake(w) ==
    /\ wpc[w] = "recv"
    /\ IF groupChan = <<>>
       THEN /\ wpc' = [wpc EXCEPT ![w] = "done"]
            /\ UNCHANGED <<groupChan, wgroup>>
       ELSE /\ groupChan' = Received(groupChan)
            /\ wgroup' = [wgroup EXCEPT ![w] = Head(groupChan)]
            /\ wpc' = [wpc EXCEPT ![w] = "got"]
    /\ UNCHANGED <<inspectorVars, concurrency, workers, filterPattern, pc, resultChan,
                   errorChan, resultClosed, errorClosed, closer, allRecords, result,
                   err, calls, errSeen, errWritten, resWritten,
                   pagerVars, utilVars>>

\* A worker calls in.client.SearchGroup for the group it took: the call
\* reaches the retriever, which may be after the call of a worker that took
\* its group later.
WorkerCall(w) ==
    /\ wpc[w] = "got"
    /\ calls' = Append(calls, SearchCall(wgroup[w]))
    /\ wpc' = [wpc EXCEPT ![w] = "calling"]
    /\ UNCHANGED <<inspectorVars, concurrency, workers, filterPattern, pc, groupChan,
                   wgroup, resultChan, errorChan, resultClosed, errorClosed, closer,
                   allRecords, result, err, errSeen, errWritten, resWritten,
                   pagerVars, utilVars>>

\* A mutant of ResultCap: resultChan buffers a third as many batches.
ResultCapThird == Len(groups) \div 3

\* The buffer size resultChan is made with: len(in.groups).
ResultCap == Len(groups)

\* The buffer size errorChan is made with: len(in.groups).
ErrorCap == Len(groups)

\* A worker's SearchGroup call returns: an error goes to errorChan and ends
\* the worker, records go to resultChan and the worker takes the next group.
\* A send waits while the channel's buffer is full.
WorkerReturn(w) ==
    /\ wpc[w] = "calling"
    /\ LET out == backend[wgroup[w]]
       IN  IF out.err # NoErr
           THEN /\ Len(errorChan) < ErrorCap
                /\ errorChan' = Append(errorChan, out.err)
                /\ errSeen' = TRUE
                /\ errWritten' = Append(errWritten,
                                        [group |-> wgroup[w], err |-> out.err,
                                         closed |-> errorClosed])
                /\ wpc' = [wpc EXCEPT ![w] = "done"]
                /\ wgroup' = [wgroup EXCEPT ![w] = <<>>]
                /\ UNCHANGED <<resultChan, resWritten>>
           ELSE /\ Len(resultChan) < ResultCap
                /\ resultChan' = Append(resultChan, out.records)
                /\ resWritten' = Append(resWritten,
                                        [group |-> wgroup[w], closed |-> resultClosed])
                /\ wpc' = [wpc EXCEPT ![w] = "recv"]
                /\ wgroup' = [wgroup EXCEPT ![w] = <<>>]
                /\ UNCHANGED <<errorChan, errSeen, errWritten>>
    /\ UNCHANGED <<inspectorVars, concurrency, workers, filterPattern, pc, groupChan,
                   resultClosed, errorClosed, closer, allRecords, result, err,
                   calls, pagerVars, utilVars>>

\* A mutant of WorkersFinished: the WaitGroup counts one worker more than
\* Search started.
WorkersFinishedOneMore ==
    \A w \in 1..(Len(wpc) + 1) : w \in DOMAIN wpc /\ wpc[w] = "done"

\* A mutant of WorkersFinished: the wait is over with the first worker.
WorkersFinishedSome == \E w \in DOMAIN wpc : wpc[w] = "done"

\* wg.Wait() is over: every worker has run its deferred wg.Done().
WorkersFinished == \A w \in DOMAIN wpc : wpc[w] = "done"

\* The closing goroutine: wg.Wait() is over, close(resultChan).
CloseResults ==
    /\ closer = "wait"
    /\ WorkersFinished
    /\ resultClosed' = TRUE
    /\ closer' = "closeErr"
    /\ UNCHANGED <<inspectorVars, concurrency, workers, filterPattern, pc, groupChan,
                   wpc, wgroup, resultChan, errorChan, errorClosed, allRecords, result,
                   err, calls, errSeen, errWritten, resWritten,
                   pagerVars, utilVars>>

\* The closing goroutine: close(errorChan).
CloseErrors ==
    /\ closer = "closeErr"
    /\ errorClosed' = TRUE
    /\ closer' = "done"
    /\ UNCHANGED <<inspectorVars, concurrency, workers, filterPattern, pc, groupChan,
                   wpc, wgroup, resultChan, errorChan, resultClosed, allRecords, result,
                   err, calls, errSeen, errWritten, resWritten,
                   pagerVars, utilVars>>

\* The collecting loop's "case err := <-errorChan" with an error buffered:
\* Search returns it, with no records.
CollectError ==
    /\ pc = "collect"
    /\ errorChan # <<>>
    /\ errorChan' = Tail(errorChan)
    /\ err' = Head(errorChan)
    /\ result' = <<>>
    /\ pc' = "returned"
    /\ UNCHANGED <<inspectorVars, concurrency, workers, filterPattern, groupChan, wpc,
                   wgroup, resultChan, resultClosed, errorClosed, closer, allRecords,
                   calls, errSeen, errWritten, resWritten,
                   pagerVars, utilVars>>

\* The same case on the closed and drained errorChan: the receive yields nil
\* and the loop goes round again.
CollectNilError ==
    /\ pc = "collect"
    /\ errorChan = <<>>
    /\ errorClosed
    /\ UNCHANGED vars

\* A mutant of Collect: the batch replaces what was collected.
CollectOverwrite(all, records) == records

\* allRecords = append(allRecords, records...)
Collect(all, records) == all \o records

\* The collecting loop's "case records, ok := <-resultChan" with a batch
\* buffered.
CollectResult ==
    /\ pc = "collect"
    /\ resultChan # <<>>
    /\ resultChan' = Tail(resultChan)
    /\ allRecords' = Collect(allRecords, Head(resultChan))
    /\ UNCHANGED <<inspectorVars, concurrency, workers, filterPattern, pc, groupChan,
                   wpc, wgroup, errorChan, resultClosed, errorClosed, closer, result,
                   err, calls, errSeen, errWritten, resWritten,
                   pagerVars, utilVars>>

\* A mutant of RemainingError: the error sent last is the one received.
RemainingErrorLast(ch) == IF ch # <<>> THEN ch[Len(ch)] ELSE NoErr

\* A mutant of RemainingError: the errors left in errorChan are not looked at.
RemainingErrorIgnored(ch) == NoErr

\* At done: the select on errorChan with a default case. A buffered error is
\* received; the closed and drained channel yields nil; the empty open one
\* takes the default.
RemainingError(ch) == IF ch # <<>> THEN Head(ch) ELSE NoErr

\* The same case on the closed and drained resultChan (!ok): goto done, the
\* check for remaining errors, the sort and the return.
CollectDone ==
    /\ pc = "collect"
    /\ resultChan = <<>>
    /\ resultClosed
    /\ IF RemainingError(errorChan) # NoErr
       THEN /\ err' = RemainingError(errorChan)
            /\ errorChan' = Tail(errorChan)
            /\ result' = <<>>
       ELSE /\ err' = NoErr
            /\ result' = SortRecords(allRecords)
            /\ UNCHANGED errorChan
    /\ pc' = "returned"
    /\ UNCHANGED <<inspectorVars, concurrency, workers, filterPattern, groupChan, wpc,
                   wgroup, resultChan, resultClosed, errorClosed, closer, allRecords,
                   calls, errSeen, errWritten, resWritten,
                   pagerVars, utilVars>>

\* The Inspectors of the fair search: one window, and every group either
\* has the records of the common batch or fails.
InitLive ==
    /\ Init
    /\ startTime % 1000000 = 0
    /\ \A g \in DOMAIN backend :
          /\ backend[g].records # <<>> \/ backend[g].err # NoErr
          /\ backend[g].records # ToRecords(g, OwnBatch)

\* A step of worker goroutine w, if Search started it.
WorkerStep(w) ==
    w \in DOMAIN wpc /\ (WorkerTake(w) \/ WorkerCall(w) \/ WorkerReturn(w))

\* A step of the closing goroutine.
CloserStep == CloseResults \/ CloseErrors

\* --------------------------------------------------- properties of Search

\* Search got past its checks: the workers were started.
Started == pc \in {"collect", "returned"} /\ Validate(groups, filterPattern) = NoErr

\* Search has returned records and a nil error.
Succeeded == Started /\ pc = "returned" /\ err = NoErr

\* The groups whose SearchGroup call fails.
FailingGroups == {g \in DOMAIN backend : backend[g].err # NoErr}

RECURSIVE Flatten(_)
\* The batches of a sequence of batches, one after the other.
Flatten(batches) ==
    IF batches = <<>> THEN <<>> ELSE Head(batches) \o Flatten(Tail(batches))

\* What the configured groups return, in the order of the group list.
SourceRecords == Flatten([i \in 1..Len(groups) |-> backend[groups[i]].records])

\* The bag of the elements of a sequence.
BagOfSeq(s) ==
    [x \in {s[i] : i \in DOMAIN s} |-> Cardinality({i \in DOMAIN s : s[i] = x})]

\* a = b or a < b, for Go strings.
StrLeq(a, b) == a = b \/ StrLess(a, b)

\* a is not after b in the order of the key (Timestamp, LogGroup, LogStream,
\* Message).
KeyLeq(a, b) ==
    \/ a.Timestamp < b.Timestamp
    \/ /\ a.Timestamp = b.Timestamp
       /\ \/ a.LogGroup # b.LogGroup /\ StrLess(a.LogGroup, b.LogGroup)
          \/ /\ a.LogGroup = b.LogGroup
             /\ \/ a.LogStream # b.LogStream /\ StrLess(a.LogStream, b.LogStream)
                \/ a.LogStream = b.LogStream /\ StrLeq(a.Message, b.Message)

\* C1: whenever Search returns without error, every adjacent pair of the
\* returned records is in non-decreasing order of the key (Timestamp,
\* LogGroup, LogStream, Message).
C1_ResultSorted ==
    Succeeded => \A i \in 1..(Len(result) - 1) : KeyLeq(result[i], result[i + 1])

\* Search returned records of two groups that arrived out of key order, with
\* neighbours that tie on the timestamp and differ in the group, in the
\* stream, and in the message alone.
C1_Witness ==
    /\ Succeeded
    /\ allRecords # result
    /\ \E i \in 1..(Len(result) - 1) :
          /\ result[i].Timestamp = result[i + 1].Timestamp
          /\ result[i].LogGroup # result[i + 1].LogGroup
    /\ \E i \in 1..(Len(result) - 1) :
          /\ result[i].Timestamp = result[i + 1].Timestamp
          /\ result[i].LogGroup = result[i + 1].LogGroup
          /\ result[i].LogStream # result[i + 1].LogStream
    /\ \E i \in 1..(Len(result) - 1) :
          /\ result[i].Timestamp = result[i + 1].Timestamp
          /\ result[i].LogGroup = result[i + 1].LogGroup
          /\ result[i].LogStream = result[i + 1].LogStream
          /\ result[i].Message # result[i + 1].Message

\* C2: with no failing group, the sequence Search returns is a function of
\* the group list and of what each group returns alone: it is the sorted
\* sequence of the groups' records, whatever the order in which the workers
\* took the groups and the batches reached the collector.
C2_ResultIndependentOfArrival ==
    (Succeeded /\ FailingGroups = {}) => result = SortRecords(SourceRecords)

\* Search returned the records of a longest group list, whose batches the
\* collector got in another order than the order of the list.
C2_Witness ==
    /\ Succeeded
    /\ Len(groups) = MaxSources
    /\ \A i \in 1..Len(groups) : backend[groups[i]].records # <<>>
    /\ allRecords # SourceRecords
    /\ Len(result) = Len(SourceRecords)

\* C3: if the query of any group fails, Search returns an error, which is
\* the error of a failing group, and no records.
C3_ErrorMeansNoRecords ==
    (Started /\ pc = "returned" /\ FailingGroups # {}) =>
        /\ err \in {backend[g].err : g \in FailingGroups}
        /\ result = <<>>

\* Search returned an error after the collector had taken the records of
\* another group.
C3_Witness ==
    /\ Started
    /\ pc = "returned"
    /\ err \in {backend[g].err : g \in FailingGroups}
    /\ allRecords # <<>>
    /\ result = <<>>

\* C4: if no group's query fails, Search returns a nil error and the bag of
\* the returned records is the bag of the records of all configured groups.
C4_AllRecordsKept ==
    (Started /\ pc = "returned" /\ FailingGroups = {}) =>
        /\ err = NoErr
        /\ BagOfSeq(result) = BagOfSeq(SourceRecords)

\* Search returned the records of a longest group list, among them a
\* record that a group returned twice.
C4_Witness ==
    /\ Succeeded
    /\ Len(groups) = MaxSources
    /\ \A i \in 1..Len(groups) : backend[groups[i]].records # <<>>
    /\ \E i, j \in 1..Len(result) : i # j /\ result[i] = result[j]

\* C5: Search with no groups or with an empty filter pattern returns an
\* error, and no worker was started and no SearchGroup call made; a search
\* that starts workers has groups and a filter pattern.
C5_InvalidInputNoQuery ==
    /\ (pc = "returned" /\ (Len(groups) = 0 \/ filterPattern = <<>>)) =>
          /\ err \in {ErrNoGroups, ErrEmptyFilter}
          /\ result = <<>>
          /\ calls = <<>>
          /\ wpc = <<>>
          /\ groupChan = <<>>
          /\ closer = "none"
    /\ (wpc # <<>> \/ calls # <<>>) => (Len(groups) > 0 /\ filterPattern # <<>>)

\* Search returned the error of an empty filter pattern for an Inspector
\* that has groups.
C5_Witness ==
    /\ pc = "returned"
    /\ Len(groups) > 0
    /\ filterPattern = <<>>
    /\ err = ErrEmptyFilter

\* C6: once a SearchGroup call has returned an error, no further SearchGroup
\* call is started.
C6_NoQueryAfterError == [][errSeen => calls' = calls]_vars

MinOf(a, b) == IF a < b THEN a ELSE b
MaxOf(a, b) == IF a > b THEN a ELSE b

\* C7: the number of workers Search runs is max(1, min(concurrency,
\* len(groups))): at least one, and no more than there are groups.
C7_WorkerCount ==
    Started =>
        /\ Len(wpc) = MaxOf(1, MinOf(concurrency, Len(groups)))
        /\ Len(wpc) >= 1
        /\ Len(wpc) <= Len(groups)

\* The groups that workers have taken from groupChan and not yet called
\* SearchGroup for.
HeldGroups == {wgroup[w] : w \in {v \in DOMAIN wpc : wpc[v] = "got"}}

\* The groups SearchGroup was called for so far, in the order of the calls.
CalledGroups == [i \in 1..Len(calls) |-> calls[i].group]

\* C8: groupChan holds the end of the group list, and every entry before it
\* is either held by one worker or was called for once; no two workers
\* hold or query one entry; every call carries the filter pattern and the
\* window's ends in milliseconds; and a successful Search has made one call
\* per group.
C8_EachSourceOnce ==
    Started =>
        /\ groupChan = SubSeq(groups, Len(groups) - Len(groupChan) + 1, Len(groups))
        /\ Len(calls) + Cardinality({w \in DOMAIN wpc : wpc[w] = "got"}) + Len(groupChan)
              = Len(groups)
        /\ {CalledGroups[i] : i \in 1..Len(calls)} \cup HeldGroups
              = {groups[i] : i \in 1..(Len(groups) - Len(groupChan))}
        /\ \A v, w \in DOMAIN wpc :
              (v # w /\ wpc[v] \in {"got", "calling"} /\ wpc[w] \in {"got", "calling"})
                  => wgroup[v] # wgroup[w]
        /\ \A i \in 1..Len(calls) :
              /\ calls[i].filter = filterPattern
              /\ calls[i].startMs * 1000000 <= startTime
              /\ startTime < (calls[i].startMs + 1) * 1000000
              /\ calls[i].endMs * 1000000 <= endTime
              /\ endTime < (calls[i].endMs + 1) * 1000000
        /\ Succeeded => Len(calls) = Len(groups)

\* A successful Search over a longest group list and a window whose start
\* is not a whole millisecond, in which the calls were not made in the order
\* of the list.
C8_Witness ==
    /\ Succeeded
    /\ Len(groups) = MaxSources
    /\ Len(calls) = Len(groups)
    /\ CalledGroups # groups
    /\ startTime % 1000000 # 0

\* ------------------------------------------- CloudWatchClient.SearchGroup

\* The continuation tokens a response carries: nil, "", "A" and "B".
PageTokens == {<<>>, <<"">>, <<"A">>, <<"B">>}

\* The events of the i-th response that has any: two events, the later one
\* first.
PageEvents(i) ==
    << <<1000 * i + 1, <<98>>, <<109, 48 + i>>>>, <<1000 * i, <<97>>, <<109, 48 + i>>>> >>

\* What FilterLogEvents may return to the i-th call: a page with or without
\* events and with any token, or an error.
PageResponses(i) ==
    {[events |-> ev, nextToken |-> t, err |-> NoErr] :
        ev \in {<<>>, PageEvents(i)}, t \in PageTokens}
    \cup {[events |-> <<>>, nextToken |-> <<>>, err |-> <<"throttled", i>>]}

\* mockLogsAPI's default: an empty page once the responses are used up.
DefaultPage == [events |-> <<>>, nextToken |-> <<>>, err |-> NoErr]

\* What FilterLogEvents returns to the k-th call: mockLogsAPI goes through
\* its responses and then returns the default; a LogsAPI of period p goes
\* through its first p responses over and over.
FilterLogEvents(k) ==
    IF pgPeriod > 0 THEN pgScript[((k - 1) % pgPeriod) + 1]
    ELSE IF k <= Len(pgScript) THEN pgScript[k]
    ELSE DefaultPage

\* A mutant of StopPaging: only a nil token ends the loop.
StopPagingOnNilOnly(next, outToken) == outToken = <<>>

\* SearchGroup's break condition, of the token it sent and the token of the
\* response: out.NextToken == nil, or next != nil and both name one string.
StopPaging(next, outToken) ==
    \/ outToken = <<>>
    \/ next # <<>> /\ AwsToString(outToken) = AwsToString(next)

\* The filter patterns and windows SearchGroup is called with: x over
\* [500, 2000] and "x" over [1, 7], in milliseconds.
PagerQueries ==
    { [filter |-> <<120>>, startMs |-> 500, endMs |-> 2000],
      [filter |-> <<34, 120, 34>>, startMs |-> 1, endMs |-> 7] }

\* A mutant of FilterLogEventsInput: every call is made without a token.
FilterLogEventsInputNoToken(group, pattern, startMs, endMs, next) ==
    [group |-> group, filter |-> pattern, startMs |-> startMs,
     endMs |-> endMs, nextToken |-> <<>>]

\* The cloudwatchlogs.FilterLogEventsInput of one call: LogGroupName,
\* FilterPattern, StartTime, EndTime and NextToken.
FilterLogEventsInput(group, pattern, startMs, endMs, next) ==
    [group |-> group, filter |-> pattern, startMs |-> startMs,
     endMs |-> endMs, nextToken |-> next]

\* A mutant of AppendEvents: a page's records are put in front of the
\* records of the pages before it.
AppendEventsInFront(records, group, events) == ToRecords(group, events) \o records

\* The range loop over out.Events: one record per event, appended to
\* records in the order of the events.
AppendEvents(records, group, events) == records \o ToRecords(group, events)

\* A mutant of RecordsOnError: the records of the earlier pages are returned
\* with the error.
RecordsOnErrorKept(records) == records

\* The records SearchGroup returns with an error: "return nil, err".
RecordsOnError(records) == <<>>

\* A SearchGroup call on a client whose FilterLogEvents follows a script.
InitPager ==
    /\ groups = <<>>
    /\ startTime = 0
    /\ endTime = 0
    /\ backend = <<>>
    /\ pc = "off"
    /\ SearchIdle
    /\ FilterOff
    /\ ExtractOff
    /\ PlaceholderOff
    /\ pgGroup = GroupName(1)
    /\ \E q \in PagerQueries :
          /\ pgFilter = q.filter
          /\ pgStartMs = q.startMs
          /\ pgEndMs = q.endMs
    /\ pgScript \in [1..MaxPages -> UNION {PageResponses(i) : i \in 1..MaxPages}]
    /\ \A i \in 1..MaxPages : pgScript[i] \in PageResponses(i)
    /\ pgPeriod \in 0..MaxPages
    /\ pgPeriod > 0 => \A i \in (pgPeriod + 1)..MaxPages : pgScript[i] = DefaultPage
    /\ pgInputs = <<>>
    /\ pgNext = <<>>
    /\ pgRecords = <<>>
    /\ pgPc = "loop"
    /\ pgResult = <<>>
    /\ pgErr = NoErr

\* One round of SearchGroup's loop, for as long as the call is followed: the
\* FilterLogEvents call with next as its NextToken; an error returns at
\* once; otherwise the events are added to records and the loop breaks,
\* returning them, or goes on with the response's token.
PagerCall ==
    /\ pgPc = "loop"
    /\ Len(pgInputs) < MaxCalls
    /\ LET out == FilterLogEvents(Len(pgInputs) + 1)
           recs == AppendEvents(pgRecords, pgGroup, out.events)
       IN  /\ pgInputs' = Append(pgInputs,
                  FilterLogEventsInput(pgGroup, pgFilter, pgStartMs, pgEndMs, pgNext))
           /\ IF out.err # NoErr
              THEN /\ pgErr' = out.err
                   /\ pgResult' = RecordsOnError(pgRecords)
                   /\ pgPc' = "returned"
                   /\ UNCHANGED <<pgRecords, pgNext>>
              ELSE /\ pgRecords' = recs
                   /\ IF StopPaging(pgNext, out.nextToken)
                      THEN /\ pgResult' = recs
                           /\ pgPc' = "returned"
                           /\ UNCHANGED pgNext
                      ELSE /\ pgNext' = out.nextToken
                           /\ UNCHANGED <<pgResult, pgPc>>
                   /\ UNCHANGED pgErr
    /\ UNCHANGED <<inspectorVars, searchVars, utilVars, pgGroup, pgFilter,
                   pgStartMs, pgEndMs, pgScript, pgPeriod>>

NextPager == PagerCall

SpecPager == InitPager /\ [][NextPager]_vars

\* ----------------------------------------------- properties of SearchGroup

\* C9: a response whose token is the token that was sent in its own call
\* ends the pagination: that call is the last one and SearchGroup returns
\* without error, so the calls made number the index of the first such
\* response.
C9_StopsOnRepeatedToken ==
    \A i \in 1..Len(pgInputs) :
        ( /\ FilterLogEvents(i).err = NoErr
          /\ pgInputs[i].nextToken # <<>>
          /\ FilterLogEvents(i).nextToken = pgInputs[i].nextToken )
        => /\ Len(pgInputs) = i
           /\ pgPc = "returned"
           /\ pgErr = NoErr

\* The first two responses both carry the token "A", and SearchGroup has
\* returned after two calls.
C9_Witness ==
    /\ pgPc = "returned"
    /\ pgErr = NoErr
    /\ pgScript[1].nextToken = <<"A">>
    /\ pgScript[2].nextToken = <<"A">>
    /\ pgScript[1].err = NoErr
    /\ pgScript[2].err = NoErr
    /\ Len(pgInputs) = 2

\* C10: no FilterLogEvents call is made after a response whose token is nil
\* or the empty string, be it the first response or a later one.
C10_StopsOnNilOrEmptyToken ==
    \A i \in 1..Len(pgInputs) :
        (FilterLogEvents(i).err = NoErr /\ FilterLogEvents(i).nextToken \in {<<>>, <<"">>})
        => Len(pgInputs) = i

\* C11: a FilterLogEvents call that returns an error is the last call:
\* SearchGroup returns that very error, and none of the records of the
\* earlier pages.
C11_ErrorAbortsPaging ==
    \A i \in 1..Len(pgInputs) :
        FilterLogEvents(i).err # NoErr
        => /\ Len(pgInputs) = i
           /\ pgPc = "returned"
           /\ pgErr = FilterLogEvents(i).err
           /\ pgResult = <<>>

\* SearchGroup returned the error of its third call, after two pages with
\* events.
C11_Witness ==
    /\ pgPc = "returned"
    /\ Len(pgInputs) = 3
    /\ pgErr = <<"throttled", 3>>
    /\ Len(pgRecords) = 4
    /\ pgResult = <<>>

\* ------------------------------------------------------------ JSON values

\* The values json.Unmarshal stores in an `any` (nil, bool, float64, string,
\* []any, map[string]any), each with its kind.  Texts are sequences of byte
\* values; the numbers modelled are the integers; a map is a function from
\* its keys.
JNull == <<"null">>
JBool(b) == <<"bool", b>>
JNum(n) == <<"num", n, n < 0>>
\* The float64 negative zero, which "-0" decodes to: 0 with the sign set.
JNegZero == <<"num", 0, TRUE>>
JStr(s) == <<"str", s>>
JArr(elems) == <<"arr", elems>>
JObj(members) == <<"obj", members>>

Kind(v) == v[1]

\* The decoder's outcome at a position of the text: failure, or a value and
\* the position after it.
Fail == [ok |-> FALSE, v |-> JNull, next |-> 0]
Done(v, n) == [ok |-> TRUE, v |-> v, next |-> n]

\* JSON white space: space, \t, \n, \r.
IsSpace(b) == b \in {32, 9, 10, 13}

IsDigit(b) == b \in 48..57

RECURSIVE SkipSpace(_, _)
SkipSpace(s, i) ==
    IF i <= Len(s) /\ IsSpace(s[i]) THEN SkipSpace(s, i + 1) ELSE i

HasPrefixAt(s, i, p) ==
    /\ i + Len(p) - 1 <= Len(s)
    /\ SubSeq(s, i, i + Len(p) - 1) = p

\* The digits from position i on, as <<number, position after them>>.
RECURSIVE ScanDigits(_, _, _)
ScanDigits(s, i, acc) ==
    IF i <= Len(s) /\ IsDigit(s[i])
    THEN ScanDigits(s, i + 1, acc * 10 + (s[i] - 48))
    ELSE <<acc, i>>

\* An integer: an optional '-', then 0 or a digit sequence without a
\* leading 0. The text -0 is the negative zero.
ParseNumber(s, i) ==
    LET neg == s[i] = 45
        j == IF neg THEN i + 1 ELSE i
    IN  IF j > Len(s) \/ ~IsDigit(s[j]) THEN Fail
        ELSE IF s[j] = 48 THEN Done(IF neg THEN JNegZero ELSE JNum(0), j + 1)
        ELSE LET d == ScanDigits(s, j, 0)
             IN  Done(JNum(IF neg THEN 0 - d[1] ELSE d[1]), d[2])

\* The byte a one-letter escape stands for: \" \\ \/ \b \f \n \r \t.
Unescape ==
    (34 :> 34) @@ (92 :> 92) @@ (47 :> 47) @@ (98 :> 8) @@ (102 :> 12) @@
    (110 :> 10) @@ (114 :> 13) @@ (116 :> 9)

\* The value of a hexadecimal digit, -1 for any other byte.
HexValue(b) ==
    IF b \in 48..57 THEN b - 48
    ELSE IF b \in 97..102 THEN b - 87
    ELSE IF b \in 65..70 THEN b - 55
    ELSE 0 - 1

\* The code unit of the escape \uXXXX whose 'u' is at position i, -1 when
\* four hexadecimal digits do not follow.
UnicodeEscape(s, i) ==
    IF i + 4 <= Len(s) /\ \A k \in 1..4 : HexValue(s[i + k]) >= 0
    THEN HexValue(s[i + 1]) * 4096 + HexValue(s[i + 2]) * 256
         + HexValue(s[i + 3]) * 16 + HexValue(s[i + 4])
    ELSE 0 - 1

\* The rest of a string after its opening quote, up to the closing quote.
\* Of the \uXXXX escapes the ASCII ones are modelled.
RECURSIVE ScanString(_, _, _)
ScanString(s, i, acc) ==
    IF i > Len(s) THEN Fail
    ELSE IF s[i] = 34 THEN Done(JStr(acc), i + 1)
    ELSE IF s[i] = 92
         THEN IF i + 1 <= Len(s) /\ s[i + 1] \in DOMAIN Unescape
              THEN ScanString(s, i + 2, Append(acc, Unescape[s[i + 1]]))
              ELSE IF i + 1 <= Len(s) /\ s[i + 1] = 117
                      /\ UnicodeEscape(s, i + 1) \in 0..127
              THEN ScanString(s, i + 6, Append(acc, UnicodeEscape(s, i + 1)))
              ELSE Fail
    ELSE IF s[i] < 32 THEN Fail
    ELSE ScanString(s, i + 1, Append(acc, s[i]))

RECURSIVE ParseValue(_, _)
RECURSIVE ParseElements(_, _, _)
RECURSIVE ParseMembers(_, _, _)

\* One JSON value from position i0 on, after white space.
ParseValue(s, i0) ==
    LET i == SkipSpace(s, i0)
    IN  IF i > Len(s) THEN Fail
        ELSE IF HasPrefixAt(s, i, <<110, 117, 108, 108>>) THEN Done(JNull, i + 4)
        ELSE IF HasPrefixAt(s, i, <<116, 114, 117, 101>>) THEN Done(JBool(TRUE), i + 4)
        ELSE IF HasPrefixAt(s, i, <<102, 97, 108, 115, 101>>) THEN Done(JBool(FALSE), i + 5)
        ELSE IF s[i] = 34 THEN ScanString(s, i + 1, <<>>)
        ELSE IF s[i] = 45 \/ IsDigit(s[i]) THEN ParseNumber(s, i)
        ELSE IF s[i] = 91
             THEN LET j == SkipSpace(s, i + 1)
                  IN  IF j <= Len(s) /\ s[j] = 93
                      THEN Done(JArr(<<>>), j + 1)
                      ELSE ParseElements(s, j, <<>>)
        ELSE IF s[i] = 123
             THEN LET j == SkipSpace(s, i + 1)
                  IN  IF j <= Len(s) /\ s[j] = 125
                      THEN Done(JObj(<<>>), j + 1)
                      ELSE ParseMembers(s, j, <<>>)
        ELSE Fail

\* The elements of an array after '[' or ',', up to ']'.
ParseElements(s, i, acc) ==
    LET e == ParseValue(s, i)
    IN  IF ~e.ok THEN Fail
        ELSE LET j == SkipSpace(s, e.next)
             IN  IF j > Len(s) THEN Fail
                 ELSE IF s[j] = 93 THEN Done(JArr(Append(acc, e.v)), j + 1)
                 ELSE IF s[j] = 44 THEN ParseElements(s, j + 1, Append(acc, e.v))
                 ELSE Fail

\* The members of an object after '{' or ',', up to '}'; a repeated key
\* keeps its last value.
ParseMembers(s, i0, acc) ==
    LET i == SkipSpace(s, i0)
    IN  IF i > Len(s) \/ s[i] # 34 THEN Fail
        ELSE LET k == ScanString(s, i + 1, <<>>)
             IN  IF ~k.ok THEN Fail
                 ELSE LET c == SkipSpace(s, k.next)
                      IN  IF c > Len(s) \/ s[c] # 58 THEN Fail
                          ELSE LET e == ParseValue(s, c + 1)
                               IN  IF ~e.ok THEN Fail
                                   ELSE LET j == SkipSpace(s, e.next)
                                            m == (k.v[2] :> e.v) @@ acc
                                        IN  IF j > Len(s) THEN Fail
                                            ELSE IF s[j] = 125 THEN Done(JObj(m), j + 1)
                                            ELSE IF s[j] = 44 THEN ParseMembers(s, j + 1, m)
                                            ELSE Fail

\* json.Unmarshal([]byte(raw), &decoded): the whole text is one JSON value,
\* with white space around it; ok is "err == nil".
JsonDecode(raw) ==
    LET r == ParseValue(raw, 1)
    IN  IF r.ok /\ SkipSpace(raw, r.next) = Len(raw) + 1
        THEN [ok |-> TRUE, v |-> r.v]
        ELSE [ok |-> FALSE, v |-> JNull]

\* --------------------------------------------------------- json.Marshal

\* strconv's decimal digits of a natural number.
RECURSIVE Digits(_)
Digits(n) ==
    IF n < 10 THEN <<48 + n>> ELSE Append(Digits(n \div 10), 48 + (n % 10))

\* The text of an integral float64 of value n, with its sign: the negative
\* zero is written -0.
FormatNumber(n, neg) == IF neg THEN <<45>> \o Digits(0 - n) ELSE Digits(n)

\* A lower-case hexadecimal digit.
HexDigit(n) == IF n < 10 THEN 48 + n ELSE 87 + n

\* What json.Marshal writes for one byte of a string (ASCII; Go 1.22 and
\* later): \" and \\, the short escapes \b \f \n \r \t, \u00xx for the other
\* control bytes and for < > &, and the byte itself otherwise.
EscapeByte(b) ==
    IF b = 34 THEN <<92, 34>>
    ELSE IF b = 92 THEN <<92, 92>>
    ELSE IF b = 8 THEN <<92, 98>>
    ELSE IF b = 12 THEN <<92, 102>>
    ELSE IF b = 10 THEN <<92, 110>>
    ELSE IF b = 13 THEN <<92, 114>>
    ELSE IF b = 9 THEN <<92, 116>>
    ELSE IF b < 32 \/ b \in {60, 62, 38}
         THEN <<92, 117, 48, 48, HexDigit(b \div 16), HexDigit(b % 16)>>
    ELSE <<b>>

RECURSIVE EscapeBytes(_)
EscapeBytes(s) ==
    IF s = <<>> THEN <<>> ELSE EscapeByte(Head(s)) \o EscapeBytes(Tail(s))

\* A mutant of QuoteString: the bytes as they are between two quotes.
QuoteStringRaw(s) == <<34>> \o s \o <<34>>

\* json.Marshal of a Go string: the escaped bytes between two quotes.
QuoteString(s) == <<34>> \o EscapeBytes(s) \o <<34>>

\* The least key of a non-empty key set in Go's string order.
MinKey(keys) == CHOOSE k \in keys : \A o \in keys : o = k \/ StrLess(k, o)

RECURSIVE JsonMarshal(_)
RECURSIVE MarshalElements(_)
RECURSIVE MarshalMembers(_, _)

\* json.Marshal of a decoded value: compact text, map keys sorted.
JsonMarshal(v) ==
    IF Kind(v) = "null" THEN <<110, 117, 108, 108>>
    ELSE IF Kind(v) = "bool"
         THEN IF v[2] THEN <<116, 114, 117, 101>> ELSE <<102, 97, 108, 115, 101>>
    ELSE IF Kind(v) = "num" THEN FormatNumber(v[2], v[3])
    ELSE IF Kind(v) = "str" THEN QuoteString(v[2])
    ELSE IF Kind(v) = "arr" THEN <<91>> \o MarshalElements(v[2]) \o <<93>>
    ELSE <<123>> \o MarshalMembers(v[2], DOMAIN v[2]) \o <<125>>

MarshalElements(elems) ==
    IF elems = <<>> THEN <<>>
    ELSE IF Len(elems) = 1 THEN JsonMarshal(elems[1])
    ELSE JsonMarshal(elems[1]) \o <<44>> \o MarshalElements(Tail(elems))

MarshalMembers(members, keys) ==
    IF keys = {} THEN <<>>
    ELSE LET k == MinKey(keys)
             one == QuoteString(k) \o <<58>> \o JsonMarshal(members[k])
         IN  IF keys = {k} THEN one
             ELSE one \o <<44>> \o MarshalMembers(members, keys \ {k})

\* ------------------------------------------------------- jmespath.Search

\* Op applied to the value v: "LET x == v IN Op(x)" with v written once.
With(v, Op(_)) == Op(v)

IsIdentStart(b) == b \in (65..90) \cup (97..122) \cup {95}

IsIdentPart(b) == IsIdentStart(b) \/ IsDigit(b)

RECURSIVE ScanIdent(_, _)
ScanIdent(s, i) ==
    IF i <= Len(s) /\ IsIdentPart(s[i]) THEN ScanIdent(s, i + 1) ELSE i

\* The expressions modelled: unquoted and quoted identifiers, raw string
\* literals '...', JSON literals `...`, multiselect lists [e, ...], function
\* calls f(e, ...) and sub-expressions e.name and e.[...], with blanks
\* between the tokens.  The other texts given to the model are texts the JMESPath parser
\* rejects.  A parsed expression is a node of the tree:
AstField(name) == <<"field", name>>
AstLiteral(v) == <<"literal", v>>
AstSub(left, right) == <<"sub", left, right>>
AstList(elems) == <<"list", elems>>
AstCall(name, args) == <<"call", name, args>>

\* The rest of a raw string literal after its opening quote: \' stands for
\* a quote, every other byte for itself.
RECURSIVE ScanRaw(_, _, _)
ScanRaw(s, i, acc) ==
    IF i > Len(s) THEN Fail
    ELSE IF s[i] = 39 THEN Done(AstLiteral(JStr(acc)), i + 1)
    ELSE IF s[i] = 92 /\ i + 1 <= Len(s) /\ s[i + 1] = 39
         THEN ScanRaw(s, i + 2, Append(acc, 39))
    ELSE ScanRaw(s, i + 1, Append(acc, s[i]))

\* The rest of a JSON literal after its opening backtick: a backslash takes
\* the next byte with it, \` stands for a backtick, and the text up to the
\* closing backtick has to decode as JSON.
RECURSIVE ScanLiteral(_, _, _)
ScanLiteral(s, i, acc) ==
    IF i > Len(s) THEN Fail
    ELSE IF s[i] = 96
         THEN With(JsonDecode(acc),
                   LAMBDA d : IF d.ok THEN Done(AstLiteral(d.v), i + 1) ELSE Fail)
    ELSE IF s[i] = 92 /\ i + 1 <= Len(s)
         THEN IF s[i + 1] = 96
              THEN ScanLiteral(s, i + 2, Append(acc, 96))
              ELSE ScanLiteral(s, i + 2, acc \o <<92, s[i + 1]>>)
    ELSE ScanLiteral(s, i + 1, Append(acc, s[i]))

\* A quoted identifier "..." from its opening quote at i on: the field
\* named by the JSON string.
ScanQuoted(s, i) ==
    With(ScanString(s, i + 1, <<>>),
         LAMBDA q : IF q.ok THEN Done(AstField(q.v[2]), q.next) ELSE Fail)

RECURSIVE ParseExpression(_, _)
RECURSIVE ParseTerm(_, _)
RECURSIVE ParseTail(_, _, _)
RECURSIVE ParseItems(_, _, _, _)

\* An expression from position i on: a term and the sub-expressions hung
\* on it.
ParseExpression(s, i) ==
    With(ParseTerm(s, i),
         LAMBDA t : IF t.ok THEN ParseTail(s, t.next, t.v) ELSE Fail)

\* An identifier, a function call, a literal or a multiselect list.
ParseTerm(s, i0) ==
    LET i == SkipSpace(s, i0)
    IN  IF i > Len(s) THEN Fail
        ELSE IF IsIdentStart(s[i])
             THEN LET j == ScanIdent(s, i + 1)
                      name == SubSeq(s, i, j - 1)
                      k == SkipSpace(s, j)
                  IN  IF k <= Len(s) /\ s[k] = 40
                      THEN LET c == SkipSpace(s, k + 1)
                           IN  IF c <= Len(s) /\ s[c] = 41
                               THEN Done(AstCall(name, <<>>), c + 1)
                               ELSE With(ParseItems(s, c, <<>>, 41),
                                         LAMBDA args :
                                             IF args.ok
                                             THEN Done(AstCall(name, args.v), args.next)
                                             ELSE Fail)
                      ELSE Done(AstField(name), j)
        ELSE IF s[i] = 34
             THEN With(ScanQuoted(s, i),
                       LAMBDA q :
                           IF q.ok /\ SkipSpace(s, q.next) <= Len(s)
                                   /\ s[SkipSpace(s, q.next)] = 40
                           THEN Fail
                           ELSE q)
        ELSE IF s[i] = 39 THEN ScanRaw(s, i + 1, <<>>)
        ELSE IF s[i] = 96 THEN ScanLiteral(s, i + 1, <<>>)
        ELSE IF s[i] = 91
             THEN With(ParseItems(s, i + 1, <<>>, 93),
                       LAMBDA elems :
                           IF elems.ok THEN Done(AstList(elems.v), elems.next) ELSE Fail)
        ELSE Fail

\* The sub-expressions after a term: '.' and an identifier or a multiselect
\* list, any number of times.
ParseTail(s, i0, left) ==
    LET i == SkipSpace(s, i0)
    IN  IF i <= Len(s) /\ s[i] = 46
        THEN LET j == SkipSpace(s, i + 1)
             IN  IF j > Len(s) THEN Fail
                 ELSE IF IsIdentStart(s[j])
                      THEN LET k == ScanIdent(s, j + 1)
                           IN  ParseTail(s, k, AstSub(left, AstField(SubSeq(s, j, k - 1))))
                 ELSE IF s[j] = 34
                      THEN With(ScanQuoted(s, j),
                                LAMBDA q :
                                    IF q.ok THEN ParseTail(s, q.next, AstSub(left, q.v))
                                    ELSE Fail)
                 ELSE IF s[j] = 91
                      THEN With(ParseItems(s, j + 1, <<>>, 93),
                                LAMBDA elems :
                                    IF elems.ok
                                    THEN ParseTail(s, elems.next,
                                                   AstSub(left, AstList(elems.v)))
                                    ELSE Fail)
                 ELSE Fail
        ELSE Done(left, i)

\* Expressions separated by ',' up to the closing byte.
ParseItems(s, i, acc, close) ==
    With(ParseExpression(s, i),
         LAMBDA e :
             IF ~e.ok THEN Fail
             ELSE LET j == SkipSpace(s, e.next)
                  IN  IF j > Len(s) THEN Fail
                      ELSE IF s[j] = close THEN Done(Append(acc, e.v), j + 1)
                      ELSE IF s[j] = 44
                           THEN ParseItems(s, j + 1, Append(acc, e.v), close)
                      ELSE Fail)

\* The parser on the whole text: ok is "no syntax error".
JmesParse(expr) ==
    With(ParseExpression(expr, 1),
         LAMBDA r : IF r.ok /\ r.next = Len(expr) + 1
                    THEN [ok |-> TRUE, ast |-> r.v]
                    ELSE [ok |-> FALSE, ast |-> AstLiteral(JNull)])

\* A field of a value: the member of a map that has it, null otherwise.
Field(v, name) ==
    IF Kind(v) = "obj" /\ name \in DOMAIN v[2] THEN v[2][name] ELSE JNull

SyntaxError(expr) == <<"SyntaxError", expr>>

\* The errors of the interpreter: an unknown function, a wrong number of
\* arguments, an argument of a wrong type.
RuntimeError(what, name) == <<what, name>>

\* The text of the function name join.
JoinName == <<106, 111, 105, 110>>

\* The texts of a list of strings with glue between them.
RECURSIVE JoinTexts(_, _)
JoinTexts(glue, elems) ==
    IF elems = <<>> THEN <<>>
    ELSE IF Len(elems) = 1 THEN elems[1][2]
    ELSE elems[1][2] \o glue \o JoinTexts(glue, Tail(elems))

\* A function call on its evaluated arguments.  Of the built-in functions
\* join(glue, strings) is modelled.
CallFunction(name, args) ==
    IF name # JoinName
    THEN [err |-> RuntimeError("unknown-function", name), v |-> JNull]
    ELSE IF Len(args) # 2
    THEN [err |-> RuntimeError("invalid-arity", name), v |-> JNull]
    ELSE IF \/ Kind(args[1]) # "str"
            \/ Kind(args[2]) # "arr"
            \/ \E k \in 1..Len(args[2][2]) : Kind(args[2][2][k]) # "str"
    THEN [err |-> RuntimeError("invalid-type", name), v |-> JNull]
    ELSE [err |-> NoErr, v |-> JStr(JoinTexts(args[1][2], args[2][2]))]

RECURSIVE Execute(_, _)
RECURSIVE ExecuteAll(_, _, _)

\* The interpreter on a node and the current value.
Execute(node, v) ==
    IF node[1] = "field" THEN [err |-> NoErr, v |-> Field(v, node[2])]
    ELSE IF node[1] = "literal" THEN [err |-> NoErr, v |-> node[2]]
    ELSE IF node[1] = "sub"
         THEN With(Execute(node[2], v),
                   LAMBDA l : IF l.err # NoErr THEN l ELSE Execute(node[3], l.v))
    ELSE IF node[1] = "list"
         THEN IF Kind(v) = "null" THEN [err |-> NoErr, v |-> JNull]
              ELSE With(ExecuteAll(node[2], v, <<>>),
                        LAMBDA r : IF r.err # NoErr THEN r
                                   ELSE [err |-> NoErr, v |-> JArr(r.v)])
    ELSE With(ExecuteAll(node[3], v, <<>>),
              LAMBDA r : IF r.err # NoErr THEN r ELSE CallFunction(node[2], r.v))

\* The nodes of a list on the same value, in order, up to the first error.
ExecuteAll(nodes, v, acc) ==
    IF nodes = <<>> THEN [err |-> NoErr, v |-> acc]
    ELSE With(Execute(Head(nodes), v),
              LAMBDA r : IF r.err # NoErr THEN [err |-> r.err, v |-> <<>>]
                         ELSE ExecuteAll(Tail(nodes), v, Append(acc, r.v)))

\* jmespath.Search(expr, input): the expression is parsed by every call.
JmesSearch(expr, input) ==
    With(JmesParse(expr),
         LAMBDA p : IF p.ok THEN Execute(p.ast, input)
                    ELSE [err |-> SyntaxError(expr), v |-> JNull])

\* ----------------------------------------------------- ExtractFirstValue

\* The longest event list given to ExtractFirstValue.
MaxEvents == 3

\* The message texts of the events.
MessageTexts ==
    {
      \* {"v":"x"}
      <<123, 34, 118, 34, 58, 34, 120, 34, 125>>,
      \* {"v":""}
      <<123, 34, 118, 34, 58, 34, 34, 125>>,
      \* {"v":["","y"]}
      <<123, 34, 118, 34, 58, 91, 34, 34, 44, 34, 121, 34, 93, 125>>,
      \* {"v":["a","b"]}
      <<123, 34, 118, 34, 58, 91, 34, 97, 34, 44, 34, 98, 34, 93, 125>>,
      \* {"v":false}
      <<123, 34, 118, 34, 58, 102, 97, 108, 115, 101, 125>>,
      \* {"v":0}
      <<123, 34, 118, 34, 58, 48, 125>>,
      \* {"v":-0}
      <<123, 34, 118, 34, 58, 45, 48, 125>>,
      \* {"v":{}}
      <<123, 34, 118, 34, 58, 123, 125, 125>>,
      \* {"v":[]}
      <<123, 34, 118, 34, 58, 91, 93, 125>>,
      \* {"v":null}
      <<123, 34, 118, 34, 58, 110, 117, 108, 108, 125>>,
      \* {"v": {"b": [1], "a": true}}
      <<123, 34, 118, 34, 58, 32, 123, 34, 98, 34, 58, 32, 91, 49, 93, 44, 32, 34, 97, 34, 58, 32, 116, 114, 117, 101, 125, 125>>,
      \* {"v":[[],"z"]}
      <<123, 34, 118, 34, 58, 91, 91, 93, 44, 34, 122, 34, 93, 125>>,
      \* {"message":"m"}
      <<123, 34, 109, 101, 115, 115, 97, 103, 101, 34, 58, 34, 109, 34, 125>>,
      \* WARN: x
      <<87, 65, 82, 78, 58, 32, 120>>,
      \* (the empty text)
      <<>>
    }

\* An event's Message: nil or a pointer to a text.
Messages == {<<>>} \cup {<<t>> : t \in MessageTexts}

EventLists == UNION {[1..n -> Messages] : n \in 0..MaxEvents}

\* The --extract expressions: two field paths and a malformed text.
Expressions ==
    {
      \* v
      <<118>>,
      \* message
      <<109, 101, 115, 115, 97, 103, 101>>,
      \* v.[
      <<118, 46, 91>>
    }

\* "message", the key of the wrapper of a text that is not JSON.
MessageKey == <<109, 101, 115, 115, 97, 103, 101>>

\* A mutant of Subject: every text is wrapped, decoded or not.
SubjectAlwaysWrapped(raw) == JObj(MessageKey :> JStr(raw))

\* The input of the search for one message: the decoded value, or
\* map[string]any{"message": raw} when the text does not decode.
Subject(raw) ==
    LET d == JsonDecode(raw)
    IN  IF d.ok THEN d.v ELSE JObj(MessageKey :> JStr(raw))

\* A mutant of isEmpty: false and 0 are empty too.
isEmptyFalsy(v) ==
    IF Kind(v) = "null" THEN TRUE
    ELSE IF Kind(v) = "str" THEN v[2] = <<>>
    ELSE IF Kind(v) = "arr" THEN Len(v[2]) = 0
    ELSE IF Kind(v) = "obj" THEN DOMAIN v[2] = {}
    ELSE IF Kind(v) = "bool" THEN ~v[2]
    ELSE v[2] = 0

\* isEmpty(v)
isEmpty(v) ==
    IF Kind(v) = "null" THEN TRUE
    ELSE IF Kind(v) = "str" THEN v[2] = <<>>
    ELSE IF Kind(v) = "arr" THEN Len(v[2]) = 0
    ELSE IF Kind(v) = "obj" THEN DOMAIN v[2] = {}
    ELSE FALSE

Skip == [skip |-> TRUE, v |-> JNull]
Keep(v) == [skip |-> FALSE, v |-> v]

\* A mutant of ArrayHead: an array gives way to the first of its elements
\* that is not empty.
ArrayHeadFirstNonEmpty(res) ==
    IF Kind(res) = "arr"
    THEN LET full == {i \in 1..Len(res[2]) : ~isEmpty(res[2][i])}
         IN  IF full = {} THEN Skip
             ELSE Keep(res[2][CHOOSE i \in full : \A j \in full : i <= j])
    ELSE Keep(res)

\* "If result is a slice/array, take the first element": an array gives way
\* to its first element, which is checked with isEmpty again.
ArrayHead(res) ==
    IF Kind(res) = "arr"
    THEN IF Len(res[2]) = 0 THEN Skip
         ELSE IF isEmpty(res[2][1]) THEN Skip
         ELSE Keep(res[2][1])
    ELSE Keep(res)

\* "Normalize to string": a string as it is, any other value as its JSON
\* text; the empty string and the texts null, [] and {} are skipped.
Normalize(v) ==
    IF Kind(v) = "str"
    THEN IF v[2] = <<>> THEN Skip ELSE Keep(v[2])
    ELSE LET b == JsonMarshal(v)
         IN  IF \/ Len(b) = 0
                \/ b = <<110, 117, 108, 108>>
                \/ b = <<91, 93>>
                \/ b = <<123, 125>>
             THEN Skip
             ELSE Keep(b)

\* What the body of the loop does with a result of the search: "continue",
\* or the string it returns.
Classify(res) ==
    IF isEmpty(res) THEN Skip
    ELSE LET h == ArrayHead(res)
         IN  IF h.skip THEN Skip ELSE Normalize(h.v)

SearchFailed(cause) == <<"jmespath search failed", cause>>

\* A mutant of NextIndex: the loop passes over every other event.
NextIndexSkipping(i) == i + 2

\* "for _, e := range events": the event after event i.
NextIndex(i) == i + 1

\* A mutant of NotFound: the exhausted loop returns the text null.
NotFoundNull == [value |-> <<110, 117, 108, 108>>, found |-> FALSE, err |-> NoErr]

\* A mutant of NotFound: the exhausted loop reports an error.
NotFoundAsError == [value |-> <<>>, found |-> FALSE, err |-> <<"not found">>]

\* The return after the loop: no value, not found, no error.
NotFound == [value |-> <<>>, found |-> FALSE, err |-> NoErr]

\* A call ExtractFirstValue(events, jmes).
InitExtract ==
    /\ groups = <<>>
    /\ startTime = 0
    /\ endTime = 0
    /\ backend = <<>>
    /\ pc = "off"
    /\ SearchIdle
    /\ FilterOff
    /\ PagerOff
    /\ PlaceholderOff
    /\ exEvents \in EventLists
    /\ exJmes \in Expressions
    /\ exIdx = 1
    /\ exTrace = <<>>
    /\ exPc = "loop"
    /\ exValue = <<>>
    /\ exFound = FALSE
    /\ exErr = NoErr

\* The body of the loop for the event at exIdx: a nil Message is passed
\* over; otherwise the expression is searched in the subject of the text, an
\* error of the search is returned wrapped, an empty result continues with
\* the next event and any other result is returned as a string.
ExtractVisit ==
    /\ exPc = "loop"
    /\ exIdx <= Len(exEvents)
    /\ IF exEvents[exIdx] = <<>>
       THEN /\ exIdx' = NextIndex(exIdx)
            /\ UNCHANGED <<exTrace, exPc, exValue, exFound, exErr>>
       ELSE LET input == Subject(exEvents[exIdx][1])
                r == JmesSearch(exJmes, input)
                c == Classify(r.v)
            IN  /\ exTrace' = Append(exTrace, [idx |-> exIdx, input |-> input,
                                               err |-> r.err, res |-> r.v])
                /\ IF r.err # NoErr
                   THEN /\ exErr' = SearchFailed(r.err)
                        /\ exPc' = "returned"
                        /\ UNCHANGED <<exIdx, exValue, exFound>>
                   ELSE IF c.skip
                   THEN /\ exIdx' = NextIndex(exIdx)
                        /\ UNCHANGED <<exPc, exValue, exFound, exErr>>
                   ELSE /\ exValue' = c.v
                        /\ exFound' = TRUE
                        /\ exPc' = "returned"
                        /\ UNCHANGED <<exIdx, exErr>>
    /\ UNCHANGED <<inspectorVars, searchVars, pagerVars, placeholderVars, restVars,
                   exEvents, exJmes>>

\* The loop has passed the last event: "return "", false, nil".
ExtractExhausted ==
    /\ exPc = "loop"
    /\ exIdx > Len(exEvents)
    /\ exValue' = NotFound.value
    /\ exFound' = NotFound.found
    /\ exErr' = NotFound.err
    /\ exPc' = "returned"
    /\ UNCHANGED <<inspectorVars, searchVars, pagerVars, placeholderVars, restVars,
                   exEvents, exJmes, exIdx, exTrace>>

NextExtract == ExtractVisit \/ ExtractExhausted

SpecExtract == InitExtract /\ [][NextExtract]_vars

\* ------------------------------------------- ExtractFirstValue: claims

WellFormed(jmes) == JmesParse(jmes).ok

\* What event i yields for the expression of the call: skipped, or a string.
Yield(i) == Classify(JmesSearch(exJmes, Subject(exEvents[i][1])).v)

\* The events with a message that yields a non-empty result.
Hits == {i \in 1..Len(exEvents) : exEvents[i] # <<>> /\ ~Yield(i).skip}

Returned == exPc = "returned"

\* C12: the events are searched in their order, and a call with a
\* well-formed expression returns found=true exactly when some message yields
\* a non-empty result; the value is then the normalized result of the first
\* such message, and no event after it was searched.
C12_FirstNonEmptyReturned ==
    /\ \A k, l \in 1..Len(exTrace) : k < l => exTrace[k].idx < exTrace[l].idx
    /\ Returned /\ WellFormed(exJmes)
       => /\ exFound <=> Hits # {}
          /\ exFound
             => LET first == CHOOSE i \in Hits : \A j \in Hits : i <= j
                IN  /\ exValue = Yield(first).v
                    /\ \A j \in 1..(first - 1) : exEvents[j] = <<>> \/ Yield(j).skip
                    /\ \A k \in 1..Len(exTrace) : exTrace[k].idx <= first

\* The second of three events gave the value after the first was searched
\* with an empty result, and the third, which yields another value, was not
\* searched.
C12_Witness ==
    /\ Returned /\ exFound
    /\ Len(exEvents) = 3
    /\ Len(exTrace) = 2
    /\ exTrace[2].idx = 2
    /\ 3 \in Hits
    /\ Yield(3).v # exValue

\* C13: with a well-formed expression the call never returns an error, and
\* when every event has a nil message or yields an empty result it returns
\* ("", false, nil).
C13_NotFoundIsNotAnError ==
    Returned /\ WellFormed(exJmes)
    => /\ exErr = NoErr
       /\ Hits = {} => exValue = <<>> /\ exFound = FALSE

\* Three events, one of them with a nil message and two searched with an
\* empty result, and the call returned not-found.
C13_Witness ==
    /\ Returned /\ ~exFound /\ exErr = NoErr /\ exValue = <<>>
    /\ Len(exEvents) = 3
    /\ Len(exTrace) = 2
    /\ \E i \in 1..3 : exEvents[i] = <<>>

\* C14: a call with a malformed expression returns an error, no value and
\* found=false whatever the events are, after at most one search.
C14_MalformedAlwaysFails ==
    Returned /\ ~WellFormed(exJmes)
    => /\ exErr # NoErr
       /\ exValue = <<>>
       /\ exFound = FALSE
       /\ Len(exTrace) <= 1

\* The text of event i.
Raw(i) == exEvents[i][1]

\* Search k of the call was followed by "continue".
Continued(k) ==
    /\ exIdx > exTrace[k].idx
    /\ ~(Returned /\ exFound /\ k = Len(exTrace))

\* Search k of the call was followed by the return of the string text.
ReturnedText(k, text) ==
    /\ k = Len(exTrace)
    /\ Returned /\ exFound /\ exErr = NoErr
    /\ exValue = text

\* The string a value is returned as: a string as it is, any other value as
\* compact JSON text.
TextOf(v) == IF Kind(v) = "str" THEN v[2] ELSE JsonMarshal(v)

\* C15: every search is made in the decoded value of the message when the
\* text decodes as JSON, and in the object with the one field "message"
\* holding the text when it does not; the expression `message` then yields
\* the text itself.
C15_SubjectOfMessage ==
    \A k \in 1..Len(exTrace) :
        LET raw == Raw(exTrace[k].idx)
            d == JsonDecode(raw)
        IN  /\ d.ok => exTrace[k].input = d.v
            /\ ~d.ok => /\ Kind(exTrace[k].input) = "obj"
                        /\ DOMAIN exTrace[k].input[2] = {MessageKey}
                        /\ exTrace[k].input[2][MessageKey] = JStr(raw)
            /\ ~d.ok /\ exJmes = MessageKey => exTrace[k].res = JStr(raw)

\* The expression `message` was searched in a JSON object, with the null
\* result, and then in the wrapper of a text that is not JSON, which was
\* returned as it is.
C15_Witness ==
    /\ exJmes = MessageKey
    /\ Len(exTrace) = 2
    /\ JsonDecode(Raw(exTrace[1].idx)).ok
    /\ Kind(exTrace[1].input) = "obj"
    /\ exTrace[1].res = JNull
    /\ ~JsonDecode(Raw(exTrace[2].idx)).ok
    /\ Raw(exTrace[2].idx) # <<>>
    /\ ReturnedText(2, Raw(exTrace[2].idx))

\* C16: of a result that is an array with elements only the first element
\* counts: when it is not empty the call returns it, and when it is empty
\* the scan continues, whatever the other elements are.
C16_ArrayFirstElementOnly ==
    \A k \in 1..Len(exTrace) :
        LET res == exTrace[k].res
        IN  exTrace[k].err = NoErr /\ Kind(res) = "arr" /\ Len(res[2]) > 0
            => IF isEmpty(res[2][1])
               THEN Continued(k)
               ELSE ReturnedText(k, TextOf(res[2][1]))

\* An array with an empty first element and a second element that is not
\* empty was passed over, and the first element of the array of the next
\* event was returned.
C16_Witness ==
    /\ Len(exTrace) = 2
    /\ Kind(exTrace[1].res) = "arr"
    /\ Len(exTrace[1].res[2]) = 2
    /\ exTrace[1].res[2][1] = JStr(<<>>)
    /\ exTrace[1].res[2][2] # JStr(<<>>)
    /\ Kind(exTrace[2].res) = "arr"
    /\ ReturnedText(2, exTrace[2].res[2][1][2])

\* The value the emptiness of a result is judged by: the first element of an
\* array that has elements, the result itself otherwise.
Judged(res) ==
    IF Kind(res) = "arr" /\ Len(res[2]) > 0 THEN res[2][1] ELSE res

\* null, "", [] or {}.
EmptyValue(v) ==
    \/ Kind(v) = "null"
    \/ Kind(v) = "str" /\ v[2] = <<>>
    \/ Kind(v) = "arr" /\ v[2] = <<>>
    \/ Kind(v) = "obj" /\ DOMAIN v[2] = {}

\* C17 as it is worded: a result is passed over exactly when the result
\* itself is null, the empty string, an empty array or an empty object; any
\* other result is returned with found=true, a string as it is and any other
\* value, an array with elements included, as compact JSON text.
C17_ResultItselfJudged ==
    \A k \in 1..Len(exTrace) :
        exTrace[k].err = NoErr
        => LET res == exTrace[k].res
           IN  IF EmptyValue(res) THEN Continued(k) ELSE ReturnedText(k, TextOf(res))

\* C17, amended: the value that is judged is the result, or the first
\* element of a result that is an array with elements. A result is passed
\* over exactly when that value is null, the empty string, an empty array or
\* an empty object; otherwise that value, false and 0 among them, is
\* returned with found=true, a string as it is and any other value as
\* compact JSON text.
C17_EmptyResultsExactly ==
    \A k \in 1..Len(exTrace) :
        exTrace[k].err = NoErr
        => LET v == Judged(exTrace[k].res)
           IN  IF EmptyValue(v) THEN Continued(k) ELSE ReturnedText(k, TextOf(v))

\* An array that is not empty but whose first element is the empty string
\* was passed over, and the first element of the array of the next event was
\* returned as it is, not as the JSON text of the array.
C17_Witness ==
    /\ Len(exTrace) = 2
    /\ Kind(exTrace[1].res) = "arr"
    /\ Len(exTrace[1].res[2]) = 2
    /\ Judged(exTrace[1].res) = JStr(<<>>)
    /\ Continued(1)
    /\ Kind(exTrace[2].res) = "arr"
    /\ Len(exTrace[2].res[2]) = 2
    /\ Kind(Judged(exTrace[2].res)) = "str"
    /\ ReturnedText(2, TextOf(Judged(exTrace[2].res)))
    /\ exValue # JsonMarshal(exTrace[2].res)

\* ----------------------------------------------------- ReplacePlaceholder

\* The longest value substituted.
MaxValueLen == 2

\* The --next-filter expressions.
PlaceholderExprs ==
    {
      \* @m = {{value}}
      <<64, 109, 32, 61, 32, 123, 123, 118, 97, 108, 117, 101, 125, 125>>,
      \* {{value}}{{value}}
      <<123, 123, 118, 97, 108, 117, 101, 125, 125, 123, 123, 118, 97, 108, 117, 101, 125, 125>>,
      \* a{{value}}b{{foo}}c{{value}}
      <<97, 123, 123, 118, 97, 108, 117, 101, 125, 125, 98, 123, 123, 102, 111, 111, 125, 125, 99, 123, 123, 118, 97, 108, 117, 101, 125, 125>>,
      \* {{{{value}}}}
      <<123, 123, 123, 123, 118, 97, 108, 117, 101, 125, 125, 125, 125>>,
      \* {{foo}} and more
      <<123, 123, 102, 111, 111, 125, 125, 32, 97, 110, 100, 32, 109, 111, 114, 101>>,
      \* {{value}
      <<123, 123, 118, 97, 108, 117, 101, 125>>,
      \* x{{}}y
      <<120, 123, 123, 125, 125, 121>>,
      \* {{}}{{}}{{}}
      <<123, 123, 125, 125, 123, 123, 125, 125, 123, 123, 125, 125>>,
      \* (the empty text)
      <<>>
    }

\* The placeholder names; the token of the third can overlap itself.
PlaceholderNames ==
    {
      \* value
      <<118, 97, 108, 117, 101>>,
      \* foo
      <<102, 111, 111>>,
      \* }}{{
      <<125, 125, 123, 123>>,
      \* (the empty text)
      <<>>
    }

\* The bytes of the extracted values: " \ { } < ' and the line feed, and a
\* letter.
ValueBytes == {34, 92, 123, 125, 60, 39, 10, 97}

PlaceholderValues == UNION {[1..n -> ValueBytes] : n \in 0..MaxValueLen}

\* strings.ReplaceAll(s, old, new) with an empty old: new before every byte
\* and at the end.
RECURSIVE InsertAround(_, _)
InsertAround(s, new) ==
    IF s = <<>> THEN new ELSE new \o <<Head(s)>> \o InsertAround(Tail(s), new)

\* A mutant of ReplaceAll: only the first instance of old gives way to new.
RECURSIVE ReplaceFirstOnly(_, _, _)
ReplaceFirstOnly(s, old, new) ==
    IF Len(s) < Len(old) THEN s
    ELSE IF HasPrefixAt(s, 1, old)
         THEN new \o SubSeq(s, Len(old) + 1, Len(s))
    ELSE <<Head(s)>> \o ReplaceFirstOnly(Tail(s), old, new)

\* strings.ReplaceAll(s, old, new): the instances of old that do not
\* overlap, from the left, give way to new.
RECURSIVE ReplaceAll(_, _, _)
ReplaceAll(s, old, new) ==
    IF old = <<>> THEN InsertAround(s, new)
    ELSE IF Len(s) < Len(old) THEN s
    ELSE IF HasPrefixAt(s, 1, old)
         THEN new \o ReplaceAll(SubSeq(s, Len(old) + 1, Len(s)), old, new)
    ELSE <<Head(s)>> \o ReplaceAll(Tail(s), old, new)

\* needle := "{{" + name + "}}"
Needle(name) == <<123, 123>> \o name \o <<125, 125>>

\* A mutant of ReplacePlaceholder: the empty name is not set apart.
ReplacePlaceholderNoGuard(expr, name, value) ==
    ReplaceAll(expr, Needle(name), QuoteString(value))

\* ReplacePlaceholder(expr, name, value)
ReplacePlaceholder(expr, name, value) ==
    IF name = <<>> THEN expr
    ELSE ReplaceAll(expr, Needle(name), QuoteString(value))

\* A call ReplacePlaceholder(expr, name, value).
InitPlaceholder ==
    /\ groups = <<>>
    /\ startTime = 0
    /\ endTime = 0
    /\ backend = <<>>
    /\ pc = "off"
    /\ SearchIdle
    /\ FilterOff
    /\ PagerOff
    /\ ExtractOff
    /\ rpExpr \in PlaceholderExprs
    /\ rpName \in PlaceholderNames
    /\ rpValue \in PlaceholderValues
    /\ rpPc = "called"
    /\ rpResult = <<>>

\* The call returns.
ReplaceCall ==
    /\ rpPc = "called"
    /\ rpResult' = ReplacePlaceholder(rpExpr, rpName, rpValue)
    /\ rpPc' = "returned"
    /\ UNCHANGED <<inspectorVars, searchVars, pagerVars, extractVars, restVars,
                   rpExpr, rpName, rpValue>>

NextPlaceholder == ReplaceCall

SpecPlaceholder == InitPlaceholder /\ [][NextPlaceholder]_vars

\* ------------------------------------------ ReplacePlaceholder: claims

Replaced == rpPc = "returned"

\* The token {{name}} of the call.
Token == <<123, 123>> \o rpName \o <<125, 125>>

\* The positions of the expression where the token occurs.
Occurrences == {p \in 1..Len(rpExpr) : HasPrefixAt(rpExpr, p, Token)}

\* The occurrences taken from the left without overlap: an occurrence is
\* taken exactly when no taken occurrence before it reaches into it.
Taken ==
    CHOOSE S \in SUBSET Occurrences :
        \A p \in Occurrences :
            p \in S <=> ~\E t \in S : t < p /\ p < t + Len(Token)

\* The token can overlap itself: an end of it is also a beginning of it.
SelfOverlapping ==
    \E k \in 1..(Len(Token) - 1) :
        SubSeq(Token, k + 1, Len(Token)) = SubSeq(Token, 1, Len(Token) - k)

\* Position i of the expression lies in a taken occurrence.
InToken(i) == \E p \in Taken : p <= i /\ i < p + Len(Token)

\* The literal json.Marshal makes of the value.
Literal == QuoteString(rpValue)

\* The position in the result of position i of the expression.
After(i) ==
    i + (Len(Literal) - Len(Token)) * Cardinality({p \in Taken : p + Len(Token) <= i})

\* C18: with a non-empty name the result is the expression with every
\* occurrence of {{name}} (of occurrences that overlap, the ones taken from
\* the left) replaced by the quoted literal of the value, and with every
\* other byte of the expression kept, in order.
C18_EveryOccurrenceReplaced ==
    Replaced /\ rpName # <<>>
    => /\ ~SelfOverlapping => Taken = Occurrences
       /\ Len(rpResult) = Len(rpExpr) + (Len(Literal) - Len(Token)) * Cardinality(Taken)
       /\ \A p \in Taken :
              SubSeq(rpResult, After(p), After(p) + Len(Literal) - 1) = Literal
       /\ \A i \in 1..Len(rpExpr) : ~InToken(i) => rpResult[After(i)] = rpExpr[i]

\* The token {{value}} occurred twice, around the token of another name, and
\* the value a" was put into both places.
C18_Witness ==
    /\ Replaced
    /\ rpName = <<118, 97, 108, 117, 101>>
    /\ Cardinality(Taken) = 2
    /\ \E i \in 1..Len(rpExpr) : ~InToken(i) /\ rpExpr[i] = 123
    /\ rpValue = <<97, 34>>
    /\ Len(rpResult) = Len(rpExpr) + 2 * (5 - Len(Token))

\* C19: the result is the expression itself when the name is empty and when
\* {{name}} does not occur in the expression, whatever the value is.
C19_UnchangedWithoutToken ==
    Replaced /\ (rpName = <<>> \/ Occurrences = {}) => rpResult = rpExpr

\* The expression holds the token of another name and the value is not
\* empty: it came back as it was.
C19_Witness ==
    /\ Replaced
    /\ rpName = <<118, 97, 108, 117, 101>>
    /\ HasPrefixAt(rpExpr, 1, <<123, 123, 102, 111, 111, 125, 125>>)
    /\ rpValue # <<>>
    /\ rpResult = rpExpr

\* The result read along the expression: a byte of the expression outside
\* the taken occurrences is matched by the same byte, a taken occurrence by
\* one string literal, read from its opening quote to the quote that closes
\* it and written as 0; -1 where the result cannot be read so.
RECURSIVE Outside(_, _)
Outside(o, e) ==
    IF e > Len(rpExpr) THEN IF o > Len(rpResult) THEN <<>> ELSE <<0 - 1>>
    ELSE IF e \in Taken
         THEN IF o <= Len(rpResult) /\ rpResult[o] = 34
              THEN LET lit == ScanString(rpResult, o + 1, <<>>)
                   IN  IF lit.ok THEN <<0>> \o Outside(lit.next, e + Len(Token))
                       ELSE <<0 - 1>>
              ELSE <<0 - 1>>
    ELSE IF o <= Len(rpResult) /\ rpResult[o] = rpExpr[e]
         THEN <<rpExpr[e]>> \o Outside(o + 1, e + 1)
    ELSE <<0 - 1>>

\* The expression with 0 in the place of every taken occurrence.
RECURSIVE Marked(_)
Marked(e) ==
    IF e > Len(rpExpr) THEN <<>>
    ELSE IF e \in Taken THEN <<0>> \o Marked(e + Len(Token))
    ELSE <<rpExpr[e]>> \o Marked(e + 1)

\* C20: what is put in the place of a token reads as one quoted string
\* literal: it opens with a quote, the quote that closes it is its last
\* byte, and it decodes to the value, so every quote and backslash of the
\* value is escaped in it.  The result read with one literal for each
\* substituted place is therefore the expression with the places marked,
\* which is the same for any two values.
C20_ValueStaysInsideLiteral ==
    Replaced /\ rpName # <<>> /\ Taken # {}
    => /\ LET p == CHOOSE t \in Taken : \A u \in Taken : t <= u
              lit == ScanString(rpResult, p + 1, <<>>)
          IN  /\ rpResult[p] = 34
              /\ lit.ok
              /\ lit.v = JStr(rpValue)
              /\ JsonDecode(SubSeq(rpResult, p, lit.next - 1)).ok
              /\ Cardinality(Taken) = 1
                 => Len(rpResult) - lit.next = Len(rpExpr) - (p + Len(Token))
       /\ Outside(1, 1) = Marked(1)

\* The value is a quote and a backslash, and the result holds it as the
\* literal "\"\\".
C20_Witness ==
    /\ Replaced
    /\ rpName = <<118, 97, 108, 117, 101>>
    /\ rpExpr = <<64, 109, 32, 61, 32, 123, 123, 118, 97, 108, 117, 101, 125, 125>>
    /\ rpValue = <<34, 92>>
    /\ rpResult = <<64, 109, 32, 61, 32, 34, 92, 34, 92, 92, 34>>

\* ------------------------------------------------------- BuildNextFilter

\* The --next-filter arguments: expressions that evaluate to a string, to
\* null, to an array, an object, a number and a boolean, expressions that
\* fail in the parser and in the interpreter, and literal filter patterns.
FilterExprs ==
    {
      \* value
      <<118, 97, 108, 117, 101>>,
      \* other
      <<111, 116, 104, 101, 114>>,
      \* [value, 'x']
      <<91, 118, 97, 108, 117, 101, 44, 32, 39, 120, 39, 93>>,
      \* join('', ['@message = "', value, '"'])
      <<106, 111, 105, 110, 40, 39, 39, 44, 32, 91, 39, 64, 109, 101, 115, 115, 97, 103, 101, 32, 61, 32, 34, 39, 44, 32, 118, 97, 108, 117, 101, 44, 32, 39, 34, 39, 93, 41>>,
      \* user.[
      <<117, 115, 101, 114, 46, 91>>,
      \* join('', value)
      <<106, 111, 105, 110, 40, 39, 39, 44, 32, 118, 97, 108, 117, 101, 41>>,
      \* foo(value)
      <<102, 111, 111, 40, 118, 97, 108, 117, 101, 41>>,
      \* `{"b": [1, true], "a": null}`
      <<96, 123, 34, 98, 34, 58, 32, 91, 49, 44, 32, 116, 114, 117, 101, 93, 44, 32, 34, 97, 34, 58, 32, 110, 117, 108, 108, 125, 96>>,
      \* `0`
      <<96, 48, 96>>,
      \* `false`
      <<96, 102, 97, 108, 115, 101, 96>>,
      \* ERROR
      <<69, 82, 82, 79, 82>>,
      \* ERROR timeout
      <<69, 82, 82, 79, 82, 32, 116, 105, 109, 101, 111, 117, 116>>,
      \* userId=x
      <<117, 115, 101, 114, 73, 100, 61, 120>>
    }

\* "value", the key of the one field of the input.
ValueKey == <<118, 97, 108, 117, 101>>

\* input := map[string]any{"value": extracted}
FilterInput(extracted) == JObj(ValueKey :> JStr(extracted))

\* A mutant of Fallback: the failure of the search is returned as an error.
FallbackAsError(jmes, cause) == [value |-> <<>>, err |-> cause]

\* "Fallback: treat as literal pattern": return jmes, nil.
Fallback(jmes, cause) == [value |-> jmes, err |-> NoErr]

\* A mutant of FilterText: every result is marshalled, strings too.
FilterTextAlwaysJson(v) == JsonMarshal(v)

\* The switch on the result: a string as it is, any other value as
\* json.Marshal's text.
FilterText(v) == IF Kind(v) = "str" THEN v[2] ELSE JsonMarshal(v)

\* BuildNextFilter(jmes, extracted)
BuildNextFilter(jmes, extracted) ==
    With(JmesSearch(jmes, FilterInput(extracted)),
         LAMBDA out : IF out.err # NoErr THEN Fallback(jmes, out.err)
                      ELSE [value |-> FilterText(out.v), err |-> NoErr])

\* A call BuildNextFilter(jmes, extracted).
InitFilter ==
    /\ groups = <<>>
    /\ startTime = 0
    /\ endTime = 0
    /\ backend = <<>>
    /\ pc = "off"
    /\ SearchIdle
    /\ PagerOff
    /\ ExtractOff
    /\ PlaceholderOff
    /\ CmdOff
    /\ bfJmes \in FilterExprs
    /\ bfExtracted \in PlaceholderValues
    /\ bfInput = <<>>
    /\ bfOut = <<>>
    /\ bfPc = "called"
    /\ bfResult = <<>>
    /\ bfErr = NoErr

\* The call returns.
BuildCall ==
    /\ bfPc = "called"
    /\ bfInput' = FilterInput(bfExtracted)
    /\ bfOut' = JmesSearch(bfJmes, FilterInput(bfExtracted))
    /\ LET r == BuildNextFilter(bfJmes, bfExtracted)
       IN  bfResult' = r.value /\ bfErr' = r.err
    /\ bfPc' = "returned"
    /\ UNCHANGED <<inspectorVars, searchVars, pagerVars, extractVars,
                   placeholderVars, cmdVars, bfJmes, bfExtracted>>

NextFilter == BuildCall

SpecFilter == InitFilter /\ [][NextFilter]_vars

\* ---------------------------------------------- BuildNextFilter: claims

Built == bfPc = "returned"

\* C21: BuildNextFilter returns no error, and when the search fails, in the
\* parser or in the interpreter, it returns the expression as it was given.
C21_FailureFallsBackToLiteral ==
    Built => /\ bfErr = NoErr
             /\ bfOut.err # NoErr => bfResult = bfJmes

\* The search failed in the interpreter, on an argument of a wrong type,
\* and the expression came back.
C21_Witness ==
    /\ Built
    /\ bfOut.err # NoErr
    /\ bfOut.err[1] = "invalid-type"
    /\ bfResult = bfJmes
    /\ bfErr = NoErr

\* C22: the search is made in the object with the one field "value" holding
\* the extracted value; when it succeeds a string result is returned as it
\* is and any other result as its compact JSON text.
C22_ResultOfEvaluation ==
    Built
    => /\ Kind(bfInput) = "obj"
       /\ DOMAIN bfInput[2] = {ValueKey}
       /\ bfInput[2][ValueKey] = JStr(bfExtracted)
       /\ bfOut.err = NoErr
          => /\ Kind(bfOut.v) = "str" => bfResult = bfOut.v[2]
             /\ Kind(bfOut.v) # "str" => bfResult = JsonMarshal(bfOut.v)
       /\ bfJmes = ValueKey => bfResult = bfExtracted

\* The expression [value, 'x'] with the value a" gave the text ["a\"","x"].
C22_Witness ==
    /\ Built
    /\ Kind(bfOut.v) = "arr"
    /\ bfExtracted = <<97, 34>>
    /\ bfResult = <<91, 34, 97, 92, 34, 34, 44, 34, 120, 34, 93>>

\* The literal filter patterns among the arguments.
LiteralFilters ==
    {
      \* ERROR
      <<69, 82, 82, 79, 82>>,
      \* ERROR timeout
      <<69, 82, 82, 79, 82, 32, 116, 105, 109, 101, 111, 117, 116>>,
      \* userId=x
      <<117, 115, 101, 114, 73, 100, 61, 120>>
    }

\* C23: a literal filter pattern given as the expression comes back as it
\* is, accepted by the JMESPath parser or not.
C23_LiteralReturnedUnchanged ==
    Built /\ bfJmes \in LiteralFilters => bfResult = bfJmes


\* ---------------------------------------------- Search: the filter passed on

\* The filter with a double quote (byte 34) on each side, unless it is at
\* least two bytes long and already starts and ends with one.
Quoted(fp) ==
    IF Len(fp) >= 2 /\ fp[1] = 34 /\ fp[Len(fp)] = 34
    THEN fp
    ELSE <<34>> \o fp \o <<34>>

\* C24: every SearchGroup call of a search carries the filter wrapped in
\* double quotes (unchanged when it is already quoted), and every source
\* receives the same filter string.
C24_FilterPassedQuoted ==
    \A i \in 1..Len(calls) :
        /\ calls[i].filter = Quoted(filterPattern)
        /\ calls[i].filter = calls[1].filter

\* ------------------------------------------------------- ResolveTimeWindow

\* A time.Time is modelled by the instant it denotes: the days since
\* 0001-01-01 and the second of that day, in UTC.  time.Time{} is the first
\* second of the first day.
ZeroTime == [day |-> 0, sec |-> 0]

IsLeap(y) == (y % 4 = 0) /\ ((y % 100 # 0) \/ (y % 400 = 0))

DaysIn(m, y) ==
    IF m = 2 THEN (IF IsLeap(y) THEN 29 ELSE 28)
    ELSE IF m \in {4, 6, 9, 11} THEN 30
    ELSE 31

DaysBeforeYear(y) ==
    365 * (y - 1) + ((y - 1) \div 4) - ((y - 1) \div 100) + ((y - 1) \div 400)

RECURSIVE DaysBeforeMonth(_, _)
DaysBeforeMonth(m, y) ==
    IF m = 1 THEN 0 ELSE DaysBeforeMonth(m - 1, y) + DaysIn(m - 1, y)

\* time.Date(y, m, d, hh, mm, ss, 0, time.UTC)
Date(y, m, d, hh, mm, ss) ==
    [day |-> DaysBeforeYear(y) + DaysBeforeMonth(m, y) + d - 1,
     sec |-> hh * 3600 + mm * 60 + ss]

\* t.Add(d) for a duration d of n whole seconds (n may be negative).
AddSeconds(t, n) ==
    LET total == t.sec + n
    IN  [day |-> t.day + (total \div 86400), sec |-> total % 86400]

\* The seconds of 24 * time.Hour.
Day24h == 24 * 3600

\* A mutant of TimeAfter: only the days are compared.
TimeAfterByDay(t, u) == t.day > u.day

\* t.After(u)
TimeAfter(t, u) == t.day > u.day \/ (t.day = u.day /\ t.sec > u.sec)

\* The two-digit number at s[i], s[i+1], or -1 when they are not digits.
TwoDigits(s, i) ==
    IF IsDigit(s[i]) /\ IsDigit(s[i + 1])
    THEN (s[i] - 48) * 10 + (s[i + 1] - 48)
    ELSE -1

\* The error of time.Parse for the text s.
ParseError(s) == <<"parsing time", s>>

\* The hour of the layout is read as one digit or as two (getnum with
\* fixed = false), every other field as exactly two: the text with a
\* one-digit hour written with two.
PadHour(s) ==
    IF Len(s) >= 13 /\ IsDigit(s[12]) /\ ~IsDigit(s[13])
    THEN SubSeq(s, 1, 11) \o <<48>> \o SubSeq(s, 12, Len(s))
    ELSE s

\* The layout 2006-01-02T15:04:05Z07:00 read from s, the given text with
\* its hour in two digits: the zone is either Z or a signed hh:mm offset,
\* and every field is range-checked as package time does (the day against
\* the month's length; offsets up to 24 hours and 60 minutes).
ParseLayout(s, text) ==
    LET n == Len(s)
        bad == [err |-> ParseError(text), t |-> ZeroTime]
    IN  IF ~(n \in {20, 25}) THEN bad
        ELSE IF ~(/\ \A i \in {1, 2, 3, 4, 6, 7, 9, 10, 12, 13, 15, 16, 18, 19} :
                        IsDigit(s[i])
                  /\ s[5] = 45 /\ s[8] = 45 /\ s[11] = 84
                  /\ s[14] = 58 /\ s[17] = 58)
        THEN bad
        ELSE
        LET y  == TwoDigits(s, 1) * 100 + TwoDigits(s, 3)
            mo == TwoDigits(s, 6)
            d  == TwoDigits(s, 9)
            hh == TwoDigits(s, 12)
            mi == TwoDigits(s, 15)
            ss == TwoDigits(s, 18)
        IN  IF ~(/\ mo \in 1..12
                 /\ d >= 1
                 /\ hh < 24 /\ mi < 60 /\ ss < 60)
            THEN bad
            ELSE IF d > DaysIn(mo, y) THEN bad
            ELSE IF n = 20
            THEN IF s[20] = 90
                 THEN [err |-> NoErr, t |-> Date(y, mo, d, hh, mi, ss)]
                 ELSE bad
            ELSE
            LET oh == TwoDigits(s, 21)
                om == TwoDigits(s, 24)
            IN  IF ~(/\ s[20] \in {43, 45}
                     /\ s[23] = 58
                     /\ oh >= 0 /\ oh <= 24
                     /\ om >= 0 /\ om <= 60)
                THEN bad
                ELSE LET off == (IF s[20] = 45 THEN -1 ELSE 1)
                                    * (oh * 3600 + om * 60)
                     IN  [err |-> NoErr,
                          t |-> AddSeconds(Date(y, mo, d, hh, mi, ss), -off)]

\* time.Parse(time.RFC3339, s) for texts without fractional seconds.
ParseRFC3339(s) == ParseLayout(PadHour(s), s)

\* ErrStartAfterEnd
ErrStartAfterEnd == <<"start is after end">>

\* What ResolveTimeWindow returns on an error.
WindowError(e) == [start |-> ZeroTime, end |-> ZeroTime, err |-> e]

\* ResolveTimeWindow(startStr, endStr, now)
ResolveTimeWindow(startStr, endStr, now) ==
    IF startStr = <<>> /\ endStr = <<>>
    THEN [start |-> AddSeconds(now, -Day24h), end |-> now, err |-> NoErr]
    ELSE
    LET ps == IF startStr # <<>> THEN ParseRFC3339(startStr)
              ELSE [err |-> NoErr, t |-> ZeroTime]
        pe == IF endStr # <<>> THEN ParseRFC3339(endStr)
              ELSE [err |-> NoErr, t |-> ZeroTime]
    IN  IF ps.err # NoErr THEN WindowError(ps.err)
        ELSE IF pe.err # NoErr THEN WindowError(pe.err)
        ELSE
        LET end   == IF startStr # <<>> /\ endStr = <<>> THEN now ELSE pe.t
            start == IF startStr = <<>> /\ endStr # <<>>
                     THEN AddSeconds(end, -Day24h)
                     ELSE ps.t
        IN  IF TimeAfter(start, end) THEN WindowError(ErrStartAfterEnd)
            ELSE [start |-> start, end |-> end, err |-> NoErr]

\* The texts given as --start:
\*   (empty)
\*   2025-08-30T10:00:00Z
\*   2025-08-31T12:01:00Z
\*   not-time
\*   2025-08-31T10:00:00+09:00
\*   2025-02-30T10:00:00Z
\*   2024-02-29T23:59:59Z
\*   2025-08-31T5:00:00Z
StartTexts ==
    {
      <<>>,
      <<50, 48, 50, 53, 45, 48, 56, 45, 51, 48, 84, 49, 48, 58, 48, 48, 58, 48, 48, 90>>,
      <<50, 48, 50, 53, 45, 48, 56, 45, 51, 49, 84, 49, 50, 58, 48, 49, 58, 48, 48, 90>>,
      <<110, 111, 116, 45, 116, 105, 109, 101>>,
      <<50, 48, 50, 53, 45, 48, 56, 45, 51, 49, 84, 49, 48, 58, 48, 48, 58, 48, 48, 43, 48, 57, 58, 48, 48>>,
      <<50, 48, 50, 53, 45, 48, 50, 45, 51, 48, 84, 49, 48, 58, 48, 48, 58, 48, 48, 90>>,
      <<50, 48, 50, 52, 45, 48, 50, 45, 50, 57, 84, 50, 51, 58, 53, 57, 58, 53, 57, 90>>,
      <<50, 48, 50, 53, 45, 48, 56, 45, 51, 49, 84, 53, 58, 48, 48, 58, 48, 48, 90>>
    }

\* The texts given as --end:
\*   (empty)
\*   2025-08-31T10:00:00Z
\*   2025-08-31T12:00:00Z
\*   2025-08-31T09:30:00-01:30
\*   2025-08-31 10:00:00Z
\*   2024-03-01T00:00:00Z
EndTexts ==
    {
      <<>>,
      <<50, 48, 50, 53, 45, 48, 56, 45, 51, 49, 84, 49, 48, 58, 48, 48, 58, 48, 48, 90>>,
      <<50, 48, 50, 53, 45, 48, 56, 45, 51, 49, 84, 49, 50, 58, 48, 48, 58, 48, 48, 90>>,
      <<50, 48, 50, 53, 45, 48, 56, 45, 51, 49, 84, 48, 57, 58, 51, 48, 58, 48, 48, 45, 48, 49, 58, 51, 48>>,
      <<50, 48, 50, 53, 45, 48, 56, 45, 51, 49, 32, 49, 48, 58, 48, 48, 58, 48, 48, 90>>,
      <<50, 48, 50, 52, 45, 48, 51, 45, 48, 49, 84, 48, 48, 58, 48, 48, 58, 48, 48, 90>>
    }

\* The instants the clock shows when the window is resolved.
Nows ==
    { Date(2025, 8, 31, 12, 0, 0),
      Date(2025, 8, 30, 9, 0, 0),
      Date(2024, 3, 1, 0, 0, 0) }

InitWindow ==
    /\ groups = <<>>
    /\ startTime = 0
    /\ endTime = 0
    /\ backend = <<>>
    /\ pc = "off"
    /\ SearchIdle
    /\ PagerOff
    /\ ExtractOff
    /\ PlaceholderOff
    /\ BuildOff
    /\ MainOff
    /\ twStartStr \in StartTexts
    /\ twEndStr \in EndTexts
    /\ twNow \in Nows
    /\ twPc = "called"
    /\ twResult = <<>>

\* The call returns.
ResolveCall ==
    /\ twPc = "called"
    /\ twResult' = ResolveTimeWindow(twStartStr, twEndStr, twNow)
    /\ twPc' = "returned"
    /\ UNCHANGED <<inspectorVars, searchVars, pagerVars, extractVars,
                   placeholderVars, filterVars, mainVars, twStartStr, twEndStr,
                   twNow>>

NextWindow == ResolveCall

SpecWindow == InitWindow /\ [][NextWindow]_vars

\* ---------------------------------------------- ResolveTimeWindow: claims

\* The call returned a window, not an error.
Resolved == twPc = "returned" /\ twResult.err = NoErr

\* C25: a resolved window is [start, start + 24h] when only the start is
\* given, [end - 24h, end] when only the end is given, and [now - 24h, now]
\* when neither is given.
C25_DefaultsSpanADay ==
    Resolved =>
        /\ (twStartStr # <<>> /\ twEndStr = <<>>) =>
              twResult.end = AddSeconds(twResult.start, Day24h)
        /\ (twStartStr = <<>> /\ twEndStr # <<>>) =>
              twResult.start = AddSeconds(twResult.end, -Day24h)
        /\ (twStartStr = <<>> /\ twEndStr = <<>>) =>
              /\ twResult.start = AddSeconds(twNow, -Day24h)
              /\ twResult.end = twNow

\* ------------------------------------- SearchGroup: the calls of one query

\* C26: the first FilterLogEvents call of a SearchGroup call carries no
\* token and every later one the token of the response before it; the
\* group, the filter pattern and the window's ends are the arguments of
\* SearchGroup in every call.
C26_TokenChain ==
    \A i \in 1..Len(pgInputs) :
        /\ pgInputs[i].nextToken =
              (IF i = 1 THEN <<>> ELSE FilterLogEvents(i - 1).nextToken)
        /\ pgInputs[i].group = pgGroup
        /\ pgInputs[i].filter = pgFilter
        /\ pgInputs[i].startMs = pgStartMs
        /\ pgInputs[i].endMs = pgEndMs

\* SearchGroup has returned after three calls, the second made with the
\* token "A" and the third with the token "B".
C26_Witness ==
    /\ pgPc = "returned"
    /\ Len(pgInputs) = 3
    /\ pgInputs[2].nextToken = <<"A">>
    /\ pgInputs[3].nextToken = <<"B">>
    /\ pgFilter = <<34, 120, 34>>

RECURSIVE EventsOfPages(_)
\* The events of the first k responses, page after page.
EventsOfPages(k) ==
    IF k = 0 THEN <<>> ELSE EventsOfPages(k - 1) \o FilterLogEvents(k).events

\* SearchGroup returned without error.
PagerSucceeded == pgPc = "returned" /\ pgErr = NoErr

\* C27: a successful SearchGroup call returns one record per event of the
\* pages it fetched, the last page included, in the order of the pages and,
\* within a page, of its events; every record carries the group queried.
C27_OneRecordPerEvent ==
    PagerSucceeded =>
        LET events == EventsOfPages(Len(pgInputs))
        IN  /\ Len(pgResult) = Len(events)
            /\ \A j \in 1..Len(events) :
                  /\ pgResult[j].Timestamp = events[j][1]
                  /\ pgResult[j].LogStream = events[j][2]
                  /\ pgResult[j].Message = events[j][3]
                  /\ pgResult[j].LogGroup = pgGroup

\* SearchGroup returned the six records of three pages of two events each,
\* the last of which carried no token.
C27_Witness ==
    /\ PagerSucceeded
    /\ Len(pgInputs) = 3
    /\ \A i \in 1..3 : Len(FilterLogEvents(i).events) = 2
    /\ FilterLogEvents(3).nextToken = <<>>
    /\ Len(pgResult) = 6

\* ------------------------------------------ Search: which error is returned

\* Search got past its checks and returned an error.
QueryFailed == pc = "returned" /\ wpc # <<>> /\ err # NoErr

\* C28: the error a failed Search returns is the first one sent to
\* errorChan, which is the very error SearchGroup returned for that group,
\* however many groups failed.
C28_FirstErrorWritten ==
    QueryFailed =>
        /\ errWritten # <<>>
        /\ err = errWritten[1].err
        /\ err = backend[errWritten[1].group].err

\* Two groups had failed when Search returned, the second of the list
\* before the first, and Search returned the second group's error.
C28_Witness ==
    /\ QueryFailed
    /\ Len(errWritten) >= 2
    /\ errWritten[1].group = groups[2]
    /\ errWritten[2].group = groups[1]
    /\ err = BackendError(groups[2])

\* ------------------------------------- Search: the workers after an error

\* Worker w is in a SearchGroup call.
WorkerCalling(w) == IF w \in DOMAIN wpc THEN wpc[w] = "calling" ELSE FALSE

\* Worker w has left its loop: the goroutine is over.
WorkerDone(w) == IF w \in DOMAIN wpc THEN wpc[w] = "done" ELSE FALSE

\* C29: once Search has returned an error, a worker that is in a SearchGroup
\* call is not held up: the send that follows the call finds room in the
\* channel, what Search returned does not change any more, and the worker
\* comes to its end.
C29_WorkersRunToCompletion ==
    /\ [](QueryFailed =>
            \A w \in DOMAIN wpc : wpc[w] = "calling" => ENABLED WorkerReturn(w))
    /\ [][QueryFailed =>
            /\ result' = result
            /\ err' = err
            /\ allRecords' = allRecords]_vars
    /\ \A w \in 1..NumWorkers :
          (QueryFailed /\ WorkerCalling(w)) ~> WorkerDone(w)

\* Search has returned an error while a worker was still in a call; the
\* worker has since sent its records, which nobody received, and is done.
C29_Witness ==
    /\ QueryFailed
    /\ resultChan # <<>>
    /\ Head(resultChan) # <<>>
    /\ result = <<>>
    /\ \A w \in DOMAIN wpc : wpc[w] = "done"
    /\ Len(calls) = Len(groups)
    /\ Len(errWritten) = 1

\* ---------------------------------------------------------------- main

\* The texts given as --extract:
\*   (empty)
\*   "id=v"
\*   "id=v.["
\*   "=v"
\*   "id"
\*   " id = message "
ExtractSpecs ==
    {
      <<>>,
      <<105, 100, 61, 118>>,
      <<105, 100, 61, 118, 46, 91>>,
      <<61, 118>>,
      <<105, 100>>,
      <<32, 105, 100, 32, 61, 32, 109, 101, 115, 115, 97, 103, 101, 32>>
    }

\* The texts given as --next-filter:
\*   (empty)
\*   "userId={{id}}"
\*   "value"
\*   "{{id}}"
\*   "''"
NextFilters ==
    {
      <<>>,
      <<117, 115, 101, 114, 73, 100, 61, 123, 123, 105, 100, 125, 125>>,
      <<118, 97, 108, 117, 101>>,
      <<123, 123, 105, 100, 125, 125>>,
      <<39, 39>>
    }

\* The texts given as --start:
\*   (empty)
\*   2025-08-31T5:00:00Z
\*   2025-08-31T12:01:00Z
\*   not-time
MainStarts ==
    {
      <<>>,
      <<50, 48, 50, 53, 45, 48, 56, 45, 51, 49, 84, 53, 58, 48, 48, 58, 48, 48, 90>>,
      <<50, 48, 50, 53, 45, 48, 56, 45, 51, 49, 84, 49, 50, 58, 48, 49, 58, 48, 48, 90>>,
      <<110, 111, 116, 45, 116, 105, 109, 101>>
    }

\* The texts given as --end:
\*   (empty)
\*   2025-08-31T12:00:00Z
MainEnds ==
    {
      <<>>,
      <<50, 48, 50, 53, 45, 48, 56, 45, 51, 49, 84, 49, 50, 58, 48, 48, 58, 48, 48, 90>>
    }

\* The options of a run: --filter-pattern, --extract, --next-filter,
\* --pretty, --concurrency, --start and --end.
OptionSets ==
    [FilterPattern : Filters, Extract : ExtractSpecs, NextFilter : NextFilters,
     PrettyJSON : BOOLEAN, Concurrency : {0, MaxConcurrency},
     StartRFC3339 : MainStarts, EndRFC3339 : MainEnds]

\* "--extract"
ExtractFlag == <<45, 45, 101, 120, 116, 114, 97, 99, 116>>

\* The arguments of the command line that give --extract the value e: none
\* for the empty value; the flag and its value; or the flag twice, the
\* second time as --extract=e, whose value the flag package keeps.
ArgLists(e) ==
    IF e = <<>> THEN {<<>>}
    ELSE { <<ExtractFlag, e>>,
           <<ExtractFlag, <<97, 61, 98>>, ExtractFlag \o <<61>> \o e>> }

\* What main finds around it: the arguments, the clock at 2025-08-31
\* 12:00:00 UTC, a client that can or cannot be made, and a standard output
\* that can or cannot be written.
Environments(e) ==
    [args : ArgLists(e), now : {Date(2025, 8, 31, 12, 0, 0)}, clientErr : BOOLEAN,
     stdoutErr : BOOLEAN]

RECURSIVE CountFrom(_, _, _)
\* CountFlagOccurrences' loop from args[i] on: an argument that is the flag
\* counts, and the argument after it is passed over unless it starts with
\* "-"; an argument that starts with the flag and "=" counts.
CountFrom(flagName, args, i) ==
    IF i > Len(args) THEN 0
    ELSE IF args[i] = flagName
         THEN 1 + CountFrom(flagName, args,
                            IF i + 1 <= Len(args) /\ ~HasPrefixAt(args[i + 1], 1, <<45>>)
                            THEN i + 2 ELSE i + 1)
    ELSE IF HasPrefixAt(args[i], 1, flagName \o <<61>>)
         THEN 1 + CountFrom(flagName, args, i + 1)
    ELSE CountFrom(flagName, args, i + 1)

\* CountFlagOccurrences(flagName), with args for os.Args[1:]
CountFlagOccurrences(flagName, args) == CountFrom(flagName, args, 1)

\* The message lists of the records a search finds.
FoundMessages ==
    {
      <<>>,
      \* {"v":"x"}
      << <<123, 34, 118, 34, 58, 34, 120, 34, 125>> >>,
      \* {"v":""} and {"v":["a","b"]}
      << <<123, 34, 118, 34, 58, 34, 34, 125>>,
         <<123, 34, 118, 34, 58, 91, 34, 97, 34, 44, 34, 98, 34, 93, 125>> >>,
      \* WARN: x
      << <<87, 65, 82, 78, 58, 32, 120>> >>,
      \* {"v":null}
      << <<123, 34, 118, 34, 58, 110, 117, 108, 108, 125>> >>
    }

\* What a Search call returns: the error of its checks; or else records
\* with these messages, or the error of a group.
SearchReturns(gs, fp) ==
    IF Validate(gs, fp) # NoErr
    THEN {[records |-> <<>>, err |-> Validate(gs, fp)]}
    ELSE {[records |-> [i \in 1..Len(m) |-> LogRecord(1000 * i, gs[1], <<97>>, m[i])],
           err |-> NoErr] : m \in FoundMessages}
         \cup {[records |-> <<>>, err |-> BackendError(gs[1])]}

\* Options.Validate with args for os.Args[1:]: the exit code, 0 when the
\* options are in order.
ValidateOptions(o, args) ==
    IF o.FilterPattern = <<>> THEN 2
    ELSE IF o.NextFilter # <<>> /\ o.Extract = <<>> THEN 2
    ELSE IF CountFlagOccurrences(ExtractFlag, args) > 1 THEN 2
    ELSE 0

\* strings.Index(s, "="): the 0-based position of the first "=", or -1.
IndexEquals(s) ==
    LET at == {i \in 1..Len(s) : s[i] = 61}
    IN  IF at = {} THEN -1 ELSE (CHOOSE i \in at : \A j \in at : i <= j) - 1

\* The white space strings.TrimSpace removes, for ASCII texts.
IsTrimmed(b) == b \in {9, 10, 11, 12, 13, 32}

RECURSIVE TrimLeft(_)
TrimLeft(s) == IF s # <<>> /\ IsTrimmed(Head(s)) THEN TrimLeft(Tail(s)) ELSE s

RECURSIVE TrimRight(_)
TrimRight(s) ==
    IF s # <<>> /\ IsTrimmed(s[Len(s)]) THEN TrimRight(SubSeq(s, 1, Len(s) - 1)) ELSE s

\* strings.TrimSpace
TrimSpace(s) == TrimRight(TrimLeft(s))

\* Options.ParseExtractSpec: the name and the path of "name=path".
ParseExtractSpec(extract) ==
    LET i == IndexEquals(extract)
        bad == [name |-> <<>>, path |-> <<>>, err |-> <<"invalid --extract format">>]
    IN  IF i <= 0 \/ i = Len(extract) - 1 THEN bad
        ELSE LET name == TrimSpace(SubSeq(extract, 1, i))
                 path == TrimSpace(SubSeq(extract, i + 2, Len(extract)))
             IN  IF name = <<>> \/ path = <<>> THEN bad
                 ELSE [name |-> name, path |-> path, err |-> NoErr]

\* A mutant of EventsOf: the events are built from the last record to the
\* first.
EventsOfReversed(records) ==
    [i \in 1..Len(records) |-> <<records[Len(records) + 1 - i].Message>>]

\* main's events of the records: only Message, a pointer to the text.
EventsOf(records) == [i \in 1..Len(records) |-> <<records[i].Message>>]

RECURSIVE ExtractFrom(_, _, _)
\* ExtractFirstValue's loop from event i on.
ExtractFrom(events, jmes, i) ==
    IF i > Len(events) THEN NotFound
    ELSE IF events[i] = <<>> THEN ExtractFrom(events, jmes, NextIndex(i))
    ELSE With(JmesSearch(jmes, Subject(events[i][1])),
              LAMBDA r :
                  IF r.err # NoErr
                  THEN [value |-> <<>>, found |-> FALSE, err |-> SearchFailed(r.err)]
                  ELSE With(Classify(r.v),
                            LAMBDA c :
                                IF c.skip THEN ExtractFrom(events, jmes, NextIndex(i))
                                ELSE [value |-> c.v, found |-> TRUE, err |-> NoErr]))

\* ExtractFirstValue(events, jmes)
ExtractFirstValue(events, jmes) == ExtractFrom(events, jmes, 1)

\* A mutant of ExtractGate: only an error of the extraction ends the run.
ExtractGateErrorOnly(x) == IF x.err # NoErr THEN 1 ELSE -1

\* main after ExtractFirstValue: exit code 1 on an error, 3 when no value
\* was found, and -1 to go on.
ExtractGate(x) ==
    IF x.err # NoErr THEN 1
    ELSE IF ~x.found THEN 3
    ELSE -1

\* ------------------------------------- the search and what main makes of it

\* main after a Search that returned records: the events are built of the
\* records and ExtractFirstValue is called with the path "message".
MainExtract ==
    /\ pc = "returned"
    /\ err = NoErr
    /\ Len(result) > 0
    /\ exPc = "off"
    /\ exEvents' = EventsOf(result)
    /\ exJmes' = MessageKey
    /\ With(ExtractFirstValue(EventsOf(result), MessageKey),
            LAMBDA x : exValue' = x.value /\ exFound' = x.found /\ exErr' = x.err)
    /\ exPc' = "returned"
    /\ UNCHANGED <<inspectorVars, searchVars, pagerVars, placeholderVars, restVars,
                   exIdx, exTrace>>

Next ==
    \/ SetWorkers
    \/ Search
    \/ \E w \in DOMAIN wpc : WorkerTake(w)
    \/ \E w \in DOMAIN wpc : WorkerCall(w)
    \/ \E w \in DOMAIN wpc : WorkerReturn(w)
    \/ CloseResults
    \/ CloseErrors
    \/ CollectError
    \/ CollectNilError
    \/ CollectResult
    \/ CollectDone
    \/ MainExtract

Spec == Init /\ [][Next]_vars

\* The search with goroutines that are never starved: a worker that can
\* take a step takes one in the end (its SearchGroup call returns, the
\* scheduler runs it).
SpecLive ==
    /\ InitLive
    /\ [][Next]_vars
    /\ \A w \in 1..NumWorkers : WF_vars(WorkerStep(w))

\* The search with no goroutine starved and a select that takes every case
\* that stays ready in the end: the workers, the closing goroutine and each
\* case of the collecting loop.
SpecFair ==
    /\ InitLive
    /\ [][Next]_vars
    /\ \A w \in 1..NumWorkers : WF_vars(WorkerStep(w))
    /\ WF_vars(CloserStep)
    /\ WF_vars(CollectError)
    /\ WF_vars(CollectResult)
    /\ WF_vars(CollectDone)

\* The arguments of a Search call of main: those of inspector.New and
\* SetWorkers, and the filter.
SearchOf(gs, window, workerCount, fp) ==
    [groups |-> gs, start |-> window.start, end |-> window.end,
     workers |-> workerCount, filter |-> fp]

\* main from the return of the first Search to its end or to the second
\* Search call: the exit code (-1 when the second search is to be made),
\* what ExtractFirstValue returned if it was called, and the next pattern.
\* The message of no logs and the plain lines are written without a look at
\* the error of the write; the encoded outputs end main with code 1 when
\* the write fails.
AfterFirstSearch(o, env, first) ==
    LET stop(code, x) == [exit |-> code, extracted |-> x, next |-> <<>>]
        encoded == IF env.stdoutErr THEN 1 ELSE 0
    IN  IF first.err # NoErr THEN stop(1, <<>>)
        ELSE IF Len(first.records) = 0 THEN stop(0, <<>>)
        ELSE IF o.Extract = <<>>
        THEN IF o.PrettyJSON THEN stop(encoded, <<>>) ELSE stop(0, <<>>)
        ELSE
        LET spec == ParseExtractSpec(o.Extract)
        IN  IF spec.err # NoErr THEN stop(2, <<>>)
            ELSE
            With(ExtractFirstValue(EventsOf(first.records), spec.path),
                 LAMBDA x :
                     IF ExtractGate(x) # -1 THEN stop(ExtractGate(x), x)
                     ELSE IF o.NextFilter = <<>> THEN stop(encoded, x)
                     ELSE With(BuildNextFilter(
                                   ReplacePlaceholder(o.NextFilter, spec.name, x.value),
                                   x.value),
                               LAMBDA built :
                                   IF built.err # NoErr THEN stop(1, x)
                                   ELSE [exit |-> -1, extracted |-> x,
                                         next |-> built.value]))

\* A run of main, from the parsed options on.
InitMain ==
    /\ groups = <<>>
    /\ startTime = 0
    /\ endTime = 0
    /\ backend = <<>>
    /\ pc = "off"
    /\ SearchIdle
    /\ PagerOff
    /\ ExtractOff
    /\ PlaceholderOff
    /\ BuildOff
    /\ WindowOff
    /\ mnOpts \in OptionSets
    /\ mnEnv \in Environments(mnOpts.Extract)
    /\ mnGroups \in GroupLists
    /\ mnWindow = <<>>
    /\ mnPc = "start"
    /\ mnSearches = <<>>
    /\ mnReturns = <<>>
    /\ mnExtracted = <<>>
    /\ mnExit = -1

\* main up to its first Search call: the options are validated, the group
\* list must not be empty, the window is resolved, the client and the
\* inspector are made and Search is called.
MainStart ==
    /\ mnPc = "start"
    /\ With(ResolveTimeWindow(mnOpts.StartRFC3339, mnOpts.EndRFC3339, mnEnv.now),
            LAMBDA w :
                IF ValidateOptions(mnOpts, mnEnv.args) # 0
                THEN /\ mnExit' = ValidateOptions(mnOpts, mnEnv.args)
                     /\ mnPc' = "exited"
                     /\ UNCHANGED <<mnSearches, mnWindow>>
                ELSE IF Len(mnGroups) = 0
                THEN /\ mnExit' = 1
                     /\ mnPc' = "exited"
                     /\ UNCHANGED <<mnSearches, mnWindow>>
                ELSE IF w.err # NoErr
                THEN /\ mnExit' = 2
                     /\ mnPc' = "exited"
                     /\ UNCHANGED <<mnSearches, mnWindow>>
                ELSE IF mnEnv.clientErr
                THEN /\ mnExit' = 1
                     /\ mnPc' = "exited"
                     /\ mnWindow' = [start |-> w.start, end |-> w.end]
                     /\ UNCHANGED mnSearches
                ELSE /\ mnWindow' = [start |-> w.start, end |-> w.end]
                     /\ mnSearches' = Append(mnSearches,
                          SearchOf(mnGroups, [start |-> w.start, end |-> w.end],
                                   ClampWorkers(mnOpts.Concurrency, Len(mnGroups)),
                                   mnOpts.FilterPattern))
                     /\ mnPc' = "first"
                     /\ UNCHANGED mnExit)
    /\ UNCHANGED <<inspectorVars, searchVars, pagerVars, extractVars, placeholderVars,
                   filterVars, windowVars, mnOpts, mnEnv, mnGroups, mnReturns,
                   mnExtracted>>

\* The first Search returns and main goes on to its end, or to the call of
\* the second Search.
MainFirstReturns ==
    /\ mnPc = "first"
    /\ \E first \in SearchReturns(mnGroups, mnOpts.FilterPattern) :
          LET a == AfterFirstSearch(mnOpts, mnEnv, first)
          IN  /\ mnReturns' = Append(mnReturns, first)
              /\ mnExtracted' = a.extracted
              /\ mnExit' = a.exit
              /\ IF a.exit # -1
                 THEN /\ mnPc' = "exited"
                      /\ UNCHANGED mnSearches
                 ELSE /\ mnSearches' = Append(mnSearches,
                           SearchOf(mnGroups, mnWindow,
                                    ClampWorkers(mnOpts.Concurrency, Len(mnGroups)),
                                    a.next))
                      /\ mnPc' = "second"
    /\ UNCHANGED <<inspectorVars, searchVars, pagerVars, extractVars, placeholderVars,
                   filterVars, windowVars, mnOpts, mnEnv, mnGroups, mnWindow>>

\* The second Search returns: its error ends the run with code 1, its
\* records are encoded to the standard output, indented or not, and the
\* error of that write ends the run with code 1 as well.
MainSecondReturns ==
    /\ mnPc = "second"
    /\ \E second \in SearchReturns(mnGroups, mnSearches[2].filter) :
          /\ mnReturns' = Append(mnReturns, second)
          /\ mnExit' = IF second.err # NoErr THEN 1 ELSE IF mnEnv.stdoutErr THEN 1 ELSE 0
    /\ mnPc' = "exited"
    /\ UNCHANGED <<inspectorVars, searchVars, pagerVars, extractVars, placeholderVars,
                   filterVars, windowVars, mnOpts, mnEnv, mnGroups, mnWindow, mnSearches,
                   mnExtracted>>

NextMain == MainStart \/ MainFirstReturns \/ MainSecondReturns

SpecMain == InitMain /\ [][NextMain]_vars

\* ----------------------------------------------------------- main: claims

\* C30: a second Search is called only when the first has returned records
\* and no error and ExtractFirstValue has returned a value and no error; it
\* is made with the groups and the window of the first; and a run makes no
\* third search.
C30_SecondSearchGated ==
    /\ Len(mnSearches) <= 2
    /\ Len(mnSearches) = 2 =>
          /\ Len(mnReturns) >= 1
          /\ mnReturns[1].err = NoErr
          /\ Len(mnReturns[1].records) >= 1
          /\ mnExtracted # <<>>
          /\ mnExtracted.found
          /\ mnExtracted.err = NoErr
          /\ mnSearches[2].groups = mnSearches[1].groups
          /\ mnSearches[2].start = mnSearches[1].start
          /\ mnSearches[2].end = mnSearches[1].end
    /\ ( /\ Len(mnReturns) >= 1
         /\ \/ mnReturns[1].err # NoErr
            \/ Len(mnReturns[1].records) = 0
            \/ mnExtracted = <<>>
            \/ ~mnExtracted.found
            \/ mnExtracted.err # NoErr )
       => Len(mnSearches) = 1

\* The first search found {"v":""} and {"v":["a","b"]}, the value a was
\* extracted from the second record, and the second search ran over a
\* longest group list with the filter userId="a".
C30_Witness ==
    /\ mnPc = "exited"
    /\ Len(mnSearches) = 2
    /\ Len(mnReturns) = 2
    /\ Len(mnReturns[1].records) = 2
    /\ mnExtracted.value = <<97>>
    /\ Len(mnGroups) = MaxSources
    /\ mnSearches[2].filter = <<117, 115, 101, 114, 73, 100, 61, 34, 97, 34>>

\* t is u or earlier.
NotAfter(t, u) == t.day < u.day \/ (t.day = u.day /\ t.sec <= u.sec)

\* C37: a window returned without error does not start after it ends; the
\* error ErrStartAfterEnd comes with zero times; and a start and an end
\* that are both given, both parse, and of which the start is the later
\* one are rejected with ErrStartAfterEnd.
C37_WindowOrdered ==
    twPc = "returned" =>
        /\ twResult.err = NoErr => NotAfter(twResult.start, twResult.end)
        /\ twResult.err = ErrStartAfterEnd =>
              twResult.start = ZeroTime /\ twResult.end = ZeroTime
        /\ ( /\ twStartStr # <<>>
             /\ twEndStr # <<>>
             /\ ParseRFC3339(twStartStr).err = NoErr
             /\ ParseRFC3339(twEndStr).err = NoErr
             /\ ~NotAfter(ParseRFC3339(twStartStr).t, ParseRFC3339(twEndStr).t) )
           => twResult.err = ErrStartAfterEnd

\* The start 2025-08-31T12:01:00Z and the end 2025-08-31T12:00:00Z, a
\* minute earlier on the same day, were rejected.
C37_Witness ==
    /\ twPc = "returned"
    /\ twResult.err = ErrStartAfterEnd
    /\ twStartStr # <<>>
    /\ twEndStr # <<>>
    /\ ParseRFC3339(twStartStr).t.day = ParseRFC3339(twEndStr).t.day

\* ------------------------------------ ExtractFirstValue: what it returns

\* C35: when ExtractFirstValue returns, found comes with a value that is
\* not empty and with no error; not found comes with the empty value; and
\* an error comes with not found and the empty value.
C35_ReturnShape ==
    exPc = "returned" =>
        /\ exFound => (exValue # <<>> /\ exErr = NoErr)
        /\ ~exFound => exValue = <<>>
        /\ exErr # NoErr => (~exFound /\ exValue = <<>>)

\* A value was found in the third event, after two events that were
\* passed over.
C35_Witness ==
    /\ exPc = "returned"
    /\ exFound
    /\ exValue # <<>>
    /\ exIdx = 3
    /\ Len(exTrace) = 3

\* ------------------------------------------- the channels of Search

\* C34: a channel is closed only when every worker has finished, no value
\* was sent on a channel that was closed, and on each of resultChan and
\* errorChan at most len(groups) values are ever sent.
C34_ChannelsSafe ==
    /\ (resultClosed \/ errorClosed) => \A w \in DOMAIN wpc : wpc[w] = "done"
    /\ errorClosed => resultClosed
    /\ \A i \in 1..Len(resWritten) : ~resWritten[i].closed
    /\ \A i \in 1..Len(errWritten) : ~errWritten[i].closed
    /\ Len(resWritten) <= Len(groups)
    /\ Len(errWritten) <= Len(groups)

\* Both channels are closed after one send for every group, some of them
\* on each channel, by more than one worker.
C34_Witness ==
    /\ resultClosed /\ errorClosed
    /\ Len(groups) >= 2
    /\ Len(wpc) >= 2
    /\ resWritten # <<>> /\ errWritten # <<>>
    /\ Len(resWritten) + Len(errWritten) = Len(groups)

\* ------------------------------------------------- Search returns

\* The collecting loop is at its select.
Collecting == pc = "collect"

\* C33: under fair scheduling of the workers, the closing goroutine and
\* the collecting loop, a Search that has started its workers returns; so
\* the loop does not receive nil from the closed and drained errorChan
\* for ever.
C33_SearchReturns == Collecting ~> (pc = "returned")

\* The collecting loop can receive nil from the closed and drained
\* errorChan while a batch is still buffered in resultChan.
C33_Witness ==
    /\ Collecting
    /\ ENABLED CollectNilError
    /\ resultChan # <<>>
    /\ Len(groups) >= 2

\* ------------------------------------------- SearchGroup: the loop ends

\* What the k-th round of SearchGroup's loop starts from, against a LogsAPI
\* that repeats its responses: the token the round sends and the place of
\* the LogsAPI in its cycle. The round's outcome is a function of the two.
Round(k) ==
    <<IF k <= Len(pgInputs) THEN pgInputs[k].nextToken ELSE pgNext,
      (k - 1) % pgPeriod>>

\* C32: SearchGroup returns against a LogsAPI that repeats a cycle of
\* responses for ever. A loop that returns starts no two of its rounds from
\* the same token and the same place in the cycle, as the rounds after the
\* second of them would be the rounds after the first, over and over.
C32_PagingTerminates ==
    (pgPeriod > 0 /\ pgPc = "loop") =>
        \A i, j \in 1..(Len(pgInputs) + 1) : i < j => Round(i) # Round(j)

\* --------------------------------------- main: the filter of the second search

\* C36: the filter main gives to the second Search is not the empty
\* string, and the second Search does not return the error of an empty
\* filter pattern.
C36_SecondFilterNotEmpty ==
    Len(mnSearches) = 2 =>
        /\ mnSearches[2].filter # <<>>
        /\ Len(mnReturns) = 2 => mnReturns[2].err # ErrEmptyFilter

\* ----------------------------- the extraction after a concurrent search

\* The records of the configured groups in the order of the sort, which
\* is one order: records that compare equal are the same record.
MergedRecords == SortRecords(SourceRecords)

\* C31: the events main gives to ExtractFirstValue are the messages of the
\* records of all groups in sorted order, one event per record, and what
\* ExtractFirstValue returns is what it returns for these: both are fixed
\* by the groups, their records and the path, whatever the order in which
\* the workers ran and the collector received.
C31_ExtractionFixedBySources ==
    (pc = "returned" /\ exPc = "returned") =>
        /\ exEvents = [i \in 1..Len(MergedRecords) |-> <<MergedRecords[i].Message>>]
        /\ [value |-> exValue, found |-> exFound, err |-> exErr]
              = ExtractFirstValue(
                    [i \in 1..Len(MergedRecords) |-> <<MergedRecords[i].Message>>],
                    exJmes)

\* A value was extracted after a search in which the collector received the messages in an order that is neither the
\* order of the groups nor the sorted one.
C31_Witness ==
    /\ pc = "returned" /\ exPc = "returned"
    /\ exFound
    /\ EventsOf(allRecords) # EventsOf(SourceRecords)
    /\ EventsOf(allRecords) # exEvents
    /\ EventsOf(SourceRecords) # exEvents
    /\ exValue # allRecords[1].Message

============================================================================
